---- MODULE Spec2Model ----
(***************************************************************************)
(* Model of PyXSec: the histogram utilities of utils/Statistics.py and the *)
(* Spectrum orchestrator of core/Spectrum.py.                              *)
(*                                                                         *)
(* A ROOT histogram is modelled with its under- and overflow cells: a TH2  *)
(* with nx x ny bins has the cells (0..nx+1) x (0..ny+1), and a bin index  *)
(* outside that range addresses the under- or overflow cell (TH2::GetBin). *)
(* Bin errors are stored as ROOT stores them, as the sum of squared        *)
(* weights, and read back through the square root.                         *)
(***************************************************************************)
EXTENDS Integers, Sequences, FiniteSets, TLC

VARIABLES
    h2,        \* the histogram handed to a function of utils/Statistics.py
    h2_prev,   \* h2 as it was before the latest call
    h2_orig,   \* h2 as it was before the first call
    ncalls,    \* number of calls of that function made so far
    unf,       \* an Unfolder used on its own
    parse,     \* the latest call of a function of utils/Generic.py
    driver,    \* a run of the driver, PyXSec.py
    spectrum,  \* the Spectrum object
    rng,       \* state of ROOT.gRandom
    op,        \* the latest operation on the Spectrum
    pre,       \* the Spectrum as it was before the latest operation
    run1,      \* seed, inputs and outcome of the latest compute call
    run0,      \* the same for the compute call before it
    nops       \* number of operations made on the Spectrum so far

histVars == <<h2, h2_prev, h2_orig, ncalls, unf, parse, driver>>
spectrumVars == <<spectrum, rng, op, pre, run1, run0, nops>>
vars == <<h2, h2_prev, h2_orig, ncalls, unf, parse, driver, spectrum, rng, op, pre, run1, run0, nops>>

----------------------------------------------------------------------------
(* Bounds of the model *)

MaxBins == 2      \* histograms have 1..MaxBins bins per axis
MaxCoef == 1      \* cell contents and errors are coef*i + coef*j, coef in 0..MaxCoef
MaxCalls == 2     \* transpose_matrix is called at most MaxCalls times
MaxToys == 2      \* nToys is configured in 0..MaxToys
NumSeeds == 7     \* the random generator has the states 0..NumSeeds-1
MaxOps == 2       \* at most MaxOps operations are made on one Spectrum

----------------------------------------------------------------------------
(* ROOT TH2 primitives used by transpose_matrix *)

Isqrt(n) == CHOOSE r \in 0..n : r * r <= n /\ (r + 1) * (r + 1) > n

\* TH2::GetBin: an index below 0 or above n+1 addresses the under/overflow cell
ClampBin(b, n) == IF b < 0 THEN 0 ELSE IF b > n + 1 THEN n + 1 ELSE b

Cells(nx, ny) == (0..(nx + 1)) \X (0..(ny + 1))

GetBinContent2(h, bx, by) == h.c[<<ClampBin(bx, h.nx), ClampBin(by, h.ny)>>]

GetBinError2(h, bx, by) == Isqrt(h.sumw2[<<ClampBin(bx, h.nx), ClampBin(by, h.ny)>>])

SetBinContent2(h, bx, by, v) ==
    [h EXCEPT !.c[<<ClampBin(bx, h.nx), ClampBin(by, h.ny)>>] = v]

SetBinError2(h, bx, by, e) ==
    [h EXCEPT !.sumw2[<<ClampBin(bx, h.nx), ClampBin(by, h.ny)>>] = e * e]

\* TH1::Reset: contents and squared errors zeroed; binning and axis titles kept
Reset2(h) ==
    [h EXCEPT !.c = [p \in Cells(h.nx, h.ny) |-> 0],
              !.sumw2 = [p \in Cells(h.nx, h.ny) |-> 0]]

\* TH1::Add(h1): every cell, under/overflow included; axis titles of h kept
Add2(h, h1) ==
    [h EXCEPT !.c = [p \in Cells(h.nx, h.ny) |-> h.c[p] + h1.c[p]],
              !.sumw2 = [p \in Cells(h.nx, h.ny) |-> h.sumw2[p] + h1.sumw2[p]]]

----------------------------------------------------------------------------
(* transpose_matrix *)

\* Mutant of TransposeLoop: the copy keeps the index order (i, j)
RECURSIVE TransposeLoop_sameIndex(_, _, _)
TransposeLoop_sameIndex(hTemp, h, k) ==
    IF k >= h.nx * h.ny THEN hTemp
    ELSE LET i == (k \div h.ny) + 1
             j == (k % h.ny) + 1
             t1 == SetBinContent2(hTemp, i, j, GetBinContent2(h, i, j))
             t2 == SetBinError2(t1, i, j, GetBinError2(h, i, j))
         IN TransposeLoop_sameIndex(t2, h, k + 1)

\* The double loop of transpose_matrix, pair number k in loop order
\* (i outer over X bins, j inner over Y bins): reads h, writes hTemp.
RECURSIVE TransposeLoop(_, _, _)
TransposeLoop(hTemp, h, k) ==
    IF k >= h.nx * h.ny THEN hTemp
    ELSE LET i == (k \div h.ny) + 1
             j == (k % h.ny) + 1
             t1 == SetBinContent2(hTemp, j, i, GetBinContent2(h, i, j))
             t2 == SetBinError2(t1, j, i, GetBinError2(h, i, j))
         IN TransposeLoop(t2, h, k + 1)

\* hTemp after the loop and the two SetTitle calls
TransposeTemp(h) ==
    LET looped == TransposeLoop(h, h, 0)
    IN [looped EXCEPT !.xt = h.yt, !.yt = h.xt]

\* h2 after transpose_matrix(h2): h2.Reset(); h2.Add(hTemp)
transpose_matrix(h) == Add2(Reset2(h), TransposeTemp(h))

----------------------------------------------------------------------------
(* Histograms the transposition is applied to *)

Titles == {"reco", "truth"}

\* A TH2 with errors set: cell (i,j) holds ca*i + cb*j with error ea*i + eb*j,
\* every under/overflow cell holds ov.
MakeTH2(nx, ny, ca, cb, ea, eb, ov, xt, yt) ==
    LET inr(p) == p[1] \in 1..nx /\ p[2] \in 1..ny
    IN [nx |-> nx, ny |-> ny,
        c |-> [p \in Cells(nx, ny) |-> IF inr(p) THEN ca * p[1] + cb * p[2] ELSE ov],
        sumw2 |-> [p \in Cells(nx, ny) |->
                      IF inr(p) THEN (ea * p[1] + eb * p[2]) * (ea * p[1] + eb * p[2])
                      ELSE ov],
        xt |-> xt, yt |-> yt]

NoSpectrum ==
    /\ spectrum = <<>> /\ rng = 0 /\ op = "" /\ pre = <<>>
    /\ run1 = <<>> /\ run0 = <<>> /\ nops = 0

InitT ==
    /\ NoSpectrum
    /\ \E nx \in 1..MaxBins, ny \in 1..MaxBins,
          ca \in 0..MaxCoef, cb \in 0..MaxCoef,
          ea \in 0..MaxCoef, eb \in 0..MaxCoef, ov \in 0..1,
          xt \in Titles, yt \in Titles :
            h2 = MakeTH2(nx, ny, ca, cb, ea, eb, ov, xt, yt)
    /\ h2_prev = h2
    /\ h2_orig = h2
    /\ ncalls = 0
    /\ unf = <<>> /\ parse = <<>> /\ driver = <<>>

Transpose ==
    /\ ncalls < MaxCalls
    /\ h2' = transpose_matrix(h2)
    /\ h2_prev' = h2
    /\ ncalls' = ncalls + 1
    /\ UNCHANGED <<h2_orig, unf, parse, driver>>
    /\ UNCHANGED spectrumVars

NextT == Transpose

SpecT == InitT /\ [][NextT]_vars

----------------------------------------------------------------------------
(* Numbers of the Spectrum. The code computes in Python and ROOT doubles; the *)
(* model computes the same expressions exactly, on fractions <<n, d>> in      *)
(* lowest terms with d > 0. A division by zero is a case of its own: it raises *)
(* (Python "/") or yields 0 (TH1::Divide).                                   *)

\* the value of an expression that is evaluated once and then used by name, as
\* the right-hand side of a Python assignment is: Value({e(x) : x \in {v}})
Value(S) == CHOOSE x \in S : TRUE

Abs(x) == IF x < 0 THEN -x ELSE x

RECURSIVE GCD(_, _)
GCD(a0, b0) ==
    Value({IF b = 0 THEN a ELSE GCD(b, a % b) : a \in {a0}, b \in {b0}})

RNorm(n0, d0) ==
    Value({IF n = 0 THEN <<0, 1>>
           ELSE Value({<<(sg * n) \div g, (sg * d) \div g>> :
                          g \in {GCD(Abs(n), Abs(d))},
                          sg \in {IF d < 0 THEN -1 ELSE 1}}) :
           n \in {n0}, d \in {d0}})

R(n) == <<n, 1>>
Zero == R(0)
One == R(1)
\* sums and products are taken over the least common denominator and after
\* cancelling across, which keeps the intermediate integers small
RAdd(a0, b0) ==
    Value({Value({RNorm(a[1] * (b[2] \div g) + b[1] * (a[2] \div g),
                        a[2] * (b[2] \div g)) : g \in {GCD(a[2], b[2])}}) :
           a \in {a0}, b \in {b0}})
RSub(a0, b0) ==
    Value({Value({RNorm(a[1] * (b[2] \div g) - b[1] * (a[2] \div g),
                        a[2] * (b[2] \div g)) : g \in {GCD(a[2], b[2])}}) :
           a \in {a0}, b \in {b0}})
RMul(a0, b0) ==
    Value({Value({RNorm((a[1] \div g1) * (b[1] \div g2),
                        (a[2] \div g2) * (b[2] \div g1)) :
                  g1 \in {GCD(Abs(a[1]), b[2])}, g2 \in {GCD(Abs(b[1]), a[2])}}) :
           a \in {a0}, b \in {b0}})
RInv(a) == IF a[1] < 0 THEN <<-a[2], -a[1]>> ELSE <<a[2], a[1]>>
RDiv(a0, b0) == RMul(a0, RInv(b0))
RLt(a0, b0) ==
    Value({a[1] * b[2] < b[1] * a[2] : a \in {a0}, b \in {b0}})
RIsZero(a) == a[1] = 0

\* sum of f[1..n]
RECURSIVE RSum(_, _)
RSum(f, n) == IF n = 0 THEN Zero ELSE RAdd(RSum(f, n - 1), f[n])

----------------------------------------------------------------------------
(* 1D histograms of the Spectrum: sequences of fractions over the bins 1..n. *)
(* The loaded histograms have their under/overflow cleared                   *)
(* (ClearUnderflowAndOverflow); a response is a function over the cells      *)
(* <<reco bin, truth bin>>.                                                  *)

Bins(n) == 1..n

\* TH2::ProjectionX(name, 1, last): per X bin, the sum over Y bins 1..last
ProjectionX(resp0, n, last) ==
    Value({[r \in Bins(n) |-> RSum([t \in Bins(last) |-> resp[<<r, t>>]], last)] :
           resp \in {resp0}})

\* TH2::ProjectionY(name, 1, last): per Y bin, the sum over X bins 1..last
ProjectionY(resp0, n, last) ==
    Value({[t \in Bins(n) |-> RSum([r \in Bins(last) |-> resp[<<r, t>>]], last)] :
           resp \in {resp0}})

\* TH1::Divide: a bin whose denominator is 0 gets content 0
Divide(a0, b0) ==
    Value({[i \in DOMAIN a |-> IF RIsZero(b[i]) THEN Zero ELSE RDiv(a[i], b[i])] :
           a \in {a0}, b \in {b0}})

\* a variant that leaves the first histogram as it is
Multiply_left(a0, b0) == a0

\* TH1::Multiply
Multiply(a0, b0) ==
    Value({[i \in DOMAIN a |-> RMul(a[i], b[i])] : a \in {a0}, b \in {b0}})

\* TH1::Add(b, -1)
Subtract(a0, b0) ==
    Value({[i \in DOMAIN a |-> RSub(a[i], b[i])] : a \in {a0}, b \in {b0}})

\* a variant that leaves the histogram unscaled
ScaleInv_unscaled(a0, k0) == a0

\* TH1::Scale(1.0 / k) for k # 0
ScaleInv(a0, k0) ==
    Value({[i \in DOMAIN a |-> RDiv(a[i], k)] : a \in {a0}, k \in {k0}})

Integral(a0) == Value({RSum(a, Len(a)) : a \in {a0}})

\* divide_by_bin_width on a 1D histogram (contents)
divide_by_bin_width(a0, widths) ==
    Value({[i \in DOMAIN a |-> RDiv(a[i], R(widths[i]))] : a \in {a0}})

ZeroHist(n) == [i \in Bins(n) |-> Zero]
ZeroMatrix(n) == [p \in Bins(n) \X Bins(n) |-> Zero]

\* Clone() and Reset() of a 2D histogram: the same cells, all 0
Reset2D(m) == [p \in DOMAIN m |-> Zero]

----------------------------------------------------------------------------
(* Unfolder (core/Unfolder.py) *)

\* the method names do_unfold knows (lines 141-150)
Methods == {"Inversion", "SVD", "Bayes", "BinByBin", "SimNeal"}

\* Unfolder.__init__: stores its arguments, whatever they are. "raised" is the
\* exception the latest call on the Unfolder ended with, "" for none; "calls"
\* is the history of the methods called on the Unfolder, oldest first.
NewUnfolder(method, error, nToys) ==
    [method |-> method, error |-> error, nToys |-> nToys,
     h_data |-> <<>>, h_response |-> <<>>, h_unfolded |-> <<>>,
     m_unfolder |-> "None", raised |-> "", calls |-> <<>>]

\* a variant that keeps the first histogram it was given
set_data_histogram_once(u, histo) ==
    IF u.h_data = <<>> THEN [u EXCEPT !.h_data = histo, !.raised = ""] ELSE u

set_data_histogram(u, histo) ==
    [u EXCEPT !.h_data = histo, !.raised = "",
              !.calls = Append(@, "set_data_histogram")]

\* GetNbinsX and GetNbinsY of a response
RecoBins(resp) == Cardinality({p[1] : p \in DOMAIN resp})
TruthBins(resp) == Cardinality({p[2] : p \in DOMAIN resp})

\* a response as the TH2 transpose_matrix works on (its cells hold whole
\* numbers, with no error set and nothing in under- and overflow), and back
ResponseTH2(resp) ==
    [nx |-> RecoBins(resp), ny |-> TruthBins(resp),
     c |-> [p \in Cells(RecoBins(resp), TruthBins(resp)) |->
              IF p \in DOMAIN resp THEN resp[p][1] ELSE 0],
     sumw2 |-> [p \in Cells(RecoBins(resp), TruthBins(resp)) |-> 0],
     xt |-> "reco", yt |-> "truth"]

TH2Response(h) == [p \in Bins(h.nx) \X Bins(h.ny) |-> R(h.c[p])]

\* the Spectrum calls it with to_transpose left False
set_response_histogram(u, histo, to_transpose) ==
    [u EXCEPT !.h_response = IF to_transpose
                             THEN TH2Response(transpose_matrix(ResponseTH2(histo)))
                             ELSE histo,
              !.raised = "",
              !.calls = Append(@, "set_response_histogram")]

\* RooUnfoldBinByBin on the RooUnfoldResponse built from the projections of
\* h_response (ProjectionX(), ProjectionY(): over all bins of the other axis).
\* The result has the truth bins of the response; bin i of it is
\* measured[i] * truth[i] / reco[i] for i up to the smaller of the two bin
\* counts of the response, and 0 where reco[i] = 0 and in the bins above. A
\* measured histogram with fewer bins than the reco axis is read in its
\* (cleared) overflow for the bins it has not.
Hunfold(meas0, resp0) ==
    Value({[i \in Bins(TruthBins(resp0)) |->
               IF i > RecoBins(resp0) \/ i > Len(meas) \/ RIsZero(reco[i]) THEN Zero
               ELSE RMul(meas[i], RDiv(truth[i], reco[i]))] :
           meas \in {meas0},
           reco \in {ProjectionX(resp0, RecoBins(resp0), TruthBins(resp0))},
           truth \in {ProjectionY(resp0, TruthBins(resp0), RecoBins(resp0))}})

\* Unfolder.do_unfold: a new solver and a new h_unfolded on every call. For a
\* method that is none of Methods no branch of lines 141-150 assigns
\* m_unfolder, and self.m_unfolder.SetNToys on the None of the constructor
\* raises AttributeError. Nothing compares the binning of h_data with that of
\* h_response. The solver modelled is that of "BinByBin", the one method of
\* Methods the Unfolders of the model are built with.
do_unfold(u0) ==
    Value({IF u.method \notin Methods /\ u.m_unfolder = "None"
           THEN [u EXCEPT !.raised = "AttributeError",
                          !.calls = Append(@, "do_unfold")]
           ELSE [u EXCEPT !.m_unfolder = "solver",
                          !.h_unfolded = Hunfold(u.h_data, u.h_response),
                          !.raised = "",
                          !.calls = Append(@, "do_unfold")] : u \in {u0}})

\* a variant of reset that is never carried out
reset_skipped(u) == u

\* Unfolder.reset: m_unfolder.Reset(), AttributeError on the None of the
\* constructor
reset(u) ==
    IF u.m_unfolder = "None"
    THEN [u EXCEPT !.raised = "AttributeError", !.calls = Append(@, "reset")]
    ELSE [u EXCEPT !.m_unfolder = "reset", !.raised = "",
                   !.calls = Append(@, "reset")]

----------------------------------------------------------------------------
(* Spectrum (core/Spectrum.py): state after _configure and _load_histograms *)

\* the fields of the Spectrum that hold histogram objects
InputKeys == {"h_data", "h_signal_reco", "h_response", "h_background", "h_generated"}
MatrixKeys == {"h_absXs_covariance", "h_relXs_covariance", "h_absXs_variance",
               "h_relXs_variance", "h_absXs_correlation", "h_relXs_correlation"}
DerivedKeys == {"h_data_minus_bkg", "h_signal_truth", "h_efficiency", "h_acceptance",
                "h_data_unfolded", "h_absXs", "h_relXs"}
TheoryKeys == {"TheoryXs_abs", "TheoryXs_rel"}
HistKeys == InputKeys \cup MatrixKeys \cup DerivedKeys \cup TheoryKeys

\* a histogram field still holding the empty ROOT.TH1D() of the constructor
Unset == <<>>

\* the measured histogram with bin i holding da*(i-1)+1
Measured(n, da) == [i \in Bins(n) |-> R(da * (i - 1) + 1)]

\* Spectrum.__init__ up to the call of _initialize: the configuration read by
\* _configure and the histograms read by _load_histograms. staterr is held as
\* its parts, staterr.split(":"). The measured histogram has error e per bin,
\* the background holds b per bin, the response has 2 on the diagonal and
\* da % 2 off it, the last bin has width 1+e, lumi is 1+b.
Loaded(n, nToys, ignore_background, output, syst_name, staterr, da, b, e) ==
    LET resp == [p \in Bins(n) \X Bins(n) |-> IF p[1] = p[2] THEN R(2) ELSE R(da % 2)]
    IN [config |-> "config.xml", syst_name |-> syst_name, output |-> output,
        ignore_background |-> ignore_background, is_initialized |-> FALSE,
        method |-> "BinByBin", staterr |-> staterr, m_toy_type |-> "",
        lumi |-> 1 + b, nToys |-> nToys, m_nbins |-> n,
        m_bins |-> [i \in Bins(n) |-> IF i = n THEN 1 + e ELSE 1],
        m_totalXs |-> Zero,
        h_data |-> Measured(n, da),
        h_data_error |-> [i \in Bins(n) |-> R(e)],
        h_signal_reco |-> [r \in Bins(n) |->
                              RAdd(ProjectionX(resp, n, n)[r], R(da % 2))],
        h_response |-> resp,
        h_generated |-> [t \in Bins(n) |-> RMul(R(2), ProjectionY(resp, n, n)[t])],
        h_background |-> IF ignore_background THEN ZeroHist(n)
                         ELSE [i \in Bins(n) |-> R(b)],
        h_data_minus_bkg |-> Unset, h_signal_truth |-> Unset,
        h_efficiency |-> Unset, h_acceptance |-> Unset,
        h_data_unfolded |-> Unset,
        h_absXs |-> Unset, h_relXs |-> Unset,
        h_absXs_error2 |-> Unset, h_relXs_error2 |-> Unset,
        h_absXs_covariance |-> Unset, h_relXs_covariance |-> Unset,
        h_absXs_correlation |-> Unset, h_relXs_correlation |-> Unset,
        h_absXs_variance |-> Unset, h_relXs_variance |-> Unset,
        m_output |-> 0, unfolder |-> NewUnfolder("", "", 0), unfolders_built |-> 0,
        v_toys_abs |-> <<>>, v_toys_rel |-> <<>>,
        m_sx_abs |-> <<>>, m_sx_rel |-> <<>>,
        directory |-> [k \in HistKeys |-> 0],
        written |-> {},
        raised |-> ""]

----------------------------------------------------------------------------
(* Spectrum._initialize *)

\* the output name _initialize falls back to: "{syst}_{method}_{param}_DiffXs.root"
DefaultOutput(sp) == <<sp.syst_name, sp.method, "DiffXs.root">>

\* lines 361-368: the output name and ROOT.TFile.Open(self.output, "RECREATE"),
\* both ahead of the is_initialized test. Each open is a new file handle,
\* numbered in order of opening, on a file emptied by RECREATE.
OpenOutput(sp) ==
    [sp EXCEPT !.output = IF sp.output = <<>> THEN DefaultOutput(sp) ELSE sp.output,
               !.m_output = sp.m_output + 1,
               !.written = {}]

\* lines 413-418: background subtraction
SubtractBackground(sp) ==
    IF sp.ignore_background THEN sp.h_data
    ELSE Subtract(sp.h_data, sp.h_background)

\* lines 420-439: the Unfolder and the toy type
InitUnfolder(sp) ==
    IF Len(sp.staterr) = 1 /\ sp.staterr[1] = "analytical"
    THEN [sp EXCEPT !.unfolder = NewUnfolder(sp.method, "kCovToy", sp.nToys),
                    !.unfolders_built = sp.unfolders_built + 1]
    ELSE [sp EXCEPT !.unfolder = NewUnfolder(sp.method, "kNoError", 1000),
                    !.unfolders_built = sp.unfolders_built + 1,
                    !.m_toy_type =
                        IF Len(sp.staterr) = 1 /\ sp.staterr[1] = "toys"
                        THEN (IF sp.syst_name # "MCstat" THEN "Poisson" ELSE "Gauss")
                        ELSE IF Len(sp.staterr) = 2 /\ sp.staterr[1] = "toys"
                        THEN sp.staterr[2]
                        ELSE sp.m_toy_type]

\* lines 377-440: what follows the is_initialized test
InitializeBody(sp0) ==
    Value({[InitUnfolder(
               [sp EXCEPT !.directory = [k \in HistKeys |->
                              IF k \in InputKeys \cup {"h_data_minus_bkg"}
                              THEN sp.m_output ELSE sp.directory[k]],
                          !.h_data_minus_bkg = SubtractBackground(sp)])
            EXCEPT !.is_initialized = TRUE] : sp \in {sp0}})

_initialize(sp0) ==
    Value({IF sp.is_initialized THEN OpenOutput(sp)
           ELSE InitializeBody(OpenOutput(sp)) : sp \in {sp0}})

----------------------------------------------------------------------------
(* ROOT.gRandom and run_toy. The generator is a deterministic stream: its    *)
(* state decides every later draw, and SetSeed puts it in a chosen state. A  *)
(* draw moves the state and yields a deviate z in {-1, 0, 1}; PoissonD(mean) *)
(* is mean + z, never below 0, and Gaus(mean, sigma) is mean + z * sigma.    *)

NextRng(r) == (3 * r + 1) % NumSeeds
Deviate(r) == (NextRng(r) % 3) - 1

\* TRandom::PoissonD: 0 without a draw when mean <= 0
PoissonD(mean, r) ==
    IF ~RLt(Zero, mean) THEN [value |-> Zero, rng |-> r]
    ELSE Value({[value |-> IF RLt(v, Zero) THEN Zero ELSE v, rng |-> NextRng(r)] :
                v \in {RAdd(mean, R(Deviate(r)))}})

\* a variant whose width is 1 whatever sigma is
Gaus_unitSigma(mean, sigma, r) ==
    [value |-> RAdd(mean, R(Deviate(r))), rng |-> NextRng(r)]

\* TRandom::Gaus: mean + sigma * deviate
Gaus(mean, sigma, r) ==
    [value |-> RAdd(mean, RMul(R(Deviate(r)), sigma)), rng |-> NextRng(r)]

\* run_toy: bins 1..nbins in order, each replaced by its smeared content;
\* st = [c |-> contents, rng |-> generator state]
RECURSIVE run_toy_from(_, _, _, _)
run_toy_from(st0, errors, toy_type, i) ==
    Value({IF i > Len(st.c) THEN st
           ELSE Value({run_toy_from([c |-> [st.c EXCEPT ![i] = d.value], rng |-> d.rng],
                                    errors, toy_type, i + 1) :
                       d \in {IF toy_type = "Poisson" THEN PoissonD(st.c[i], st.rng)
                              ELSE Gaus(st.c[i], errors[i], st.rng)}}) :
           st \in {st0}})

run_toy(histo, errors, toy_type, r) ==
    run_toy_from([c |-> histo, rng |-> r], errors, toy_type, 1)

----------------------------------------------------------------------------
(* Spectrum.compute_differential_cross_sections, lines 840-891 *)

Raise(sp, what) == [sp EXCEPT !.raised = what]

\* lines 843-870: signal truth, efficiency, acceptance, corrected data, unfolding
PointUnfold(sp0) ==
    Value({[sp EXCEPT !.h_signal_truth = truth,
                      !.h_efficiency = Divide(truth, sp.h_generated),
                      !.h_acceptance = acc,
                      !.unfolder = do_unfold(set_response_histogram(
                          set_data_histogram(sp.unfolder,
                                             Multiply(sp.h_data_minus_bkg, acc)),
                          sp.h_response, FALSE)),
                      !.directory = [k \in HistKeys |->
                          IF k \in {"h_signal_truth", "h_efficiency", "h_acceptance"}
                          THEN sp.m_output ELSE sp.directory[k]]] :
           sp \in {sp0},
           truth \in {ProjectionY(sp0.h_response, sp0.m_nbins, sp0.m_nbins)},
           acc \in {Divide(ProjectionX(sp0.h_response, Len(sp0.h_data), sp0.m_nbins),
                           sp0.h_signal_reco)}})

\* lines 872-880: DataUnfolded, and AbsoluteDiffXs and RelativeDiffXs as they are
\* before the normalisations. The bin errors of the point estimate are those
\* ROOT propagates; the model records only that no toy error has been set on
\* them (h_absXs_error2 = Unset).
PointClone(sp0) ==
    Value({[sp EXCEPT !.h_data_unfolded = sp.unfolder.h_unfolded,
                      !.h_absXs = abs0, !.h_relXs = abs0,
                      !.m_totalXs = Integral(abs0),
                      !.h_absXs_error2 = Unset, !.h_relXs_error2 = Unset,
                      !.directory = [k \in HistKeys |->
                          IF k \in {"h_data_unfolded", "h_absXs", "h_relXs"}
                          THEN sp.m_output ELSE sp.directory[k]]] :
           sp \in {sp0},
           abs0 \in {Divide(sp0.unfolder.h_unfolded, sp0.h_efficiency)}})

\* lines 888-891: 1.0 / self.m_totalXs, the bin widths, 1 / self.lumi
PointXs(sp0) ==
    Value({IF RIsZero(s1.m_totalXs) THEN Raise(s1, "ZeroDivisionError")
           ELSE Value({IF s1.lumi = 0 THEN Raise(s2, "ZeroDivisionError")
                       ELSE [s2 EXCEPT !.h_absXs = ScaleInv(s2.h_absXs, R(s1.lumi))] :
                       s2 \in {[s1 EXCEPT
                                 !.h_relXs = divide_by_bin_width(
                                     ScaleInv(s1.h_relXs, s1.m_totalXs), s1.m_bins),
                                 !.h_absXs = divide_by_bin_width(s1.h_absXs, s1.m_bins)]}}) :
           s1 \in {PointClone(sp0)}})

----------------------------------------------------------------------------
(* Spectrum._build_matrices *)

\* lines 477-507: sum over the toys of (v[i][t] - m[i]) * (v[j][t] - m[j]) / nToys,
\* accumulated toy by toy
RECURSIVE CovSum(_, _, _, _, _, _)
CovSum(v, m, i, j, nToys, t) ==
    IF t = 0 THEN Zero
    ELSE RAdd(CovSum(v, m, i, j, nToys, t - 1),
              RDiv(RMul(RSub(v[i][t], m[i]), RSub(v[j][t], m[j])), R(nToys)))

\* lines 510 and 513: num / math.sqrt(den1 * den2) for den1 * den2 > 0. The
\* quotient is a real number c; the cell holds it as the fraction
\* sign(c) * c * c, which determines c (c = 1 exactly when the fraction is 1).
Correlation_noSqrt(num, den1, den2) == RDiv(num, RMul(den1, den2))
Correlation(num, den1, den2) ==
    Value({IF num[1] < 0 THEN RSub(Zero, sq) ELSE sq :
           sq \in {RMul(RDiv(num, den1), RDiv(num, den2))}})

\* lines 517-524: the mirrored cells for i # j, the variance bins for i = j
Mirror_omitted(sp, i, j, num_abs, corr_abs, num_rel, corr_rel) ==
    IF i # j THEN sp
    ELSE [sp EXCEPT !.h_relXs_variance[i] = num_rel,
                    !.h_absXs_variance[i] = num_abs]
Mirror(sp, i, j, num_abs, corr_abs, num_rel, corr_rel) ==
    IF i # j
    THEN [sp EXCEPT !.h_absXs_covariance[<<j, i>>] = num_abs,
                    !.h_absXs_correlation[<<j, i>>] = corr_abs,
                    !.h_relXs_covariance[<<j, i>>] = num_rel,
                    !.h_relXs_correlation[<<j, i>>] = corr_rel]
    ELSE [sp EXCEPT !.h_relXs_variance[i] = num_rel,
                    !.h_absXs_variance[i] = num_abs]

\* a variant that stores the covariances of the pair and computes no correlation
BuildPair_noCorrelation(sp0, i, j) ==
    [sp0 EXCEPT
        !.h_absXs_covariance[<<i, j>>] =
            CovSum(sp0.v_toys_abs, sp0.m_sx_abs, i, j, sp0.nToys, sp0.nToys),
        !.h_relXs_covariance[<<i, j>>] =
            CovSum(sp0.v_toys_rel, sp0.m_sx_rel, i, j, sp0.nToys, sp0.nToys)]

\* lines 473-524: the body of the loops for one pair (i, j), bins counted from
\* 1. The absolute cells are written before the relative correlation is
\* computed; math.sqrt(den1 * den2) as a divisor raises ZeroDivisionError when
\* it is 0, which is when den1 or den2 is 0.
BuildPair(sp0, i, j) ==
    Value({IF RIsZero(den1_abs) \/ RIsZero(den2_abs) THEN Raise(sp, "ZeroDivisionError")
           ELSE Value({
               IF RIsZero(den1_rel) \/ RIsZero(den2_rel) THEN Raise(s1, "ZeroDivisionError")
               ELSE Value({
                   Mirror([s1 EXCEPT !.h_relXs_covariance[<<i, j>>] = num_rel,
                                     !.h_relXs_correlation[<<i, j>>] = corr_rel],
                          i, j, num_abs, corr_abs, num_rel, corr_rel) :
                   corr_rel \in {Correlation(num_rel, den1_rel, den2_rel)}}) :
               corr_abs \in {Correlation(num_abs, den1_abs, den2_abs)},
               s1 \in {[sp EXCEPT !.h_absXs_covariance[<<i, j>>] = num_abs,
                                  !.h_absXs_correlation[<<i, j>>] =
                                      Correlation(num_abs, den1_abs, den2_abs)]}}) :
           sp \in {sp0},
           num_abs \in {CovSum(sp0.v_toys_abs, sp0.m_sx_abs, i, j, sp0.nToys, sp0.nToys)},
           den1_abs \in {CovSum(sp0.v_toys_abs, sp0.m_sx_abs, i, i, sp0.nToys, sp0.nToys)},
           den2_abs \in {CovSum(sp0.v_toys_abs, sp0.m_sx_abs, j, j, sp0.nToys, sp0.nToys)},
           num_rel \in {CovSum(sp0.v_toys_rel, sp0.m_sx_rel, i, j, sp0.nToys, sp0.nToys)},
           den1_rel \in {CovSum(sp0.v_toys_rel, sp0.m_sx_rel, i, i, sp0.nToys, sp0.nToys)},
           den2_rel \in {CovSum(sp0.v_toys_rel, sp0.m_sx_rel, j, j, sp0.nToys, sp0.nToys)}})

\* lines 471-472: the pairs (i, j), j <= i, in loop order, up to an exception
RECURSIVE BuildPairs(_, _, _)
BuildPairs(sp0, i, j) ==
    Value({IF i > sp.m_nbins \/ sp.raised # "" THEN sp
           ELSE IF j < i THEN BuildPairs(BuildPair(sp, i, j), i, j + 1)
           ELSE BuildPairs(BuildPair(sp, i, j), i + 1, 1) :
           sp \in {sp0}})

\* lines 449-468: the six histograms, reset clones of the response and of the
\* data histogram, detached from any directory
NewMatrices(sp) ==
    [sp EXCEPT !.h_absXs_covariance = Reset2D(sp.h_response),
               !.h_relXs_covariance = Reset2D(sp.h_response),
               !.h_absXs_correlation = Reset2D(sp.h_response),
               !.h_relXs_correlation = Reset2D(sp.h_response),
               !.h_absXs_variance = ZeroHist(Len(sp.h_data)),
               !.h_relXs_variance = ZeroHist(Len(sp.h_data)),
               !.directory = [k \in HistKeys |->
                   IF k \in MatrixKeys THEN 0 ELSE sp.directory[k]]]

_build_matrices(sp0) == Value({BuildPairs(NewMatrices(sp), 1, 1) : sp \in {sp0}})

----------------------------------------------------------------------------
(* Spectrum._run_toys_job *)

\* line 582: rel_err = 4 * error / DataMinusBackground[b]
RelErr(sp, b) == RDiv(RMul(R(4), sp.h_data_error[b]), sp.h_data_minus_bkg[b])

\* lines 586-616: the axis range of a per-bin toy histogram around mean
ToyRange(sp, b, mean) ==
    Value({[lo |-> RMul(RSub(One, w), mean), hi |-> RMul(RAdd(One, w), mean)] :
           w \in {RMul(<<3, 2>>, RelErr(sp, b))}})

\* TH1::Fill on a per-bin toy histogram: a value outside [lo, hi) goes to the
\* under/overflow and does not enter the statistics GetRMS reads; a histogram
\* created with lo >= hi takes its range from the values filled
Counted(range, x) ==
    IF ~RLt(range.lo, range.hi) THEN TRUE
    ELSE ~RLt(x, range.lo) /\ RLt(x, range.hi)

NoFills == [n |-> 0, sx |-> Zero, sx2 |-> Zero]

Fill(st0, range0, x) ==
    Value({IF Counted(range, x)
           THEN [n |-> st.n + 1, sx |-> RAdd(st.sx, x), sx2 |-> RAdd(st.sx2, RMul(x, x))]
           ELSE st :
           st \in {st0}, range \in {range0}})

\* TH1::GetRMS, squared: |sx2/n - (sx/n)^2|, 0 for a histogram without entries
RMS2(st) ==
    IF st.n = 0 THEN Zero
    ELSE Value({IF d[1] < 0 THEN RSub(Zero, d) ELSE d :
                d \in {RSub(RDiv(st.sx2, R(st.n)),
                            RMul(RDiv(st.sx, R(st.n)), RDiv(st.sx, R(st.n))))}})

\* lines 654-670: the accumulators and the per-toy lists, zeroed
AllocToys_kept(sp) ==
    IF sp.m_sx_abs = <<>> THEN
        [sp EXCEPT !.m_sx_abs = ZeroHist(sp.m_nbins),
                   !.m_sx_rel = ZeroHist(sp.m_nbins),
                   !.v_toys_abs = [b \in Bins(sp.m_nbins) |-> [t \in 1..sp.nToys |-> Zero]],
                   !.v_toys_rel = [b \in Bins(sp.m_nbins) |-> [t \in 1..sp.nToys |-> Zero]]]
    ELSE sp
AllocToys(sp) ==
    [sp EXCEPT !.m_sx_abs = ZeroHist(sp.m_nbins),
               !.m_sx_rel = ZeroHist(sp.m_nbins),
               !.v_toys_abs = [b \in Bins(sp.m_nbins) |-> [t \in 1..sp.nToys |-> Zero]],
               !.v_toys_rel = [b \in Bins(sp.m_nbins) |-> [t \in 1..sp.nToys |-> Zero]]]

\* a variant that puts the values of the replica into the output histograms
Accumulate_intoXs(sp0, i, abs, rel) == [sp0 EXCEPT !.h_absXs = abs, !.h_relXs = rel]

\* a variant that stores and adds nothing
Accumulate_nothing(sp0, i, abs, rel) == sp0

\* lines 743-764: the values of replica i stored and added to the sums
Accumulate(sp0, i, abs, rel) ==
    Value({[sp EXCEPT
              !.v_toys_rel = [b \in Bins(sp.m_nbins) |->
                                 [sp.v_toys_rel[b] EXCEPT ![i] = rel[b]]],
              !.m_sx_rel = [b \in Bins(sp.m_nbins) |-> RAdd(sp.m_sx_rel[b], rel[b])],
              !.v_toys_abs = [b \in Bins(sp.m_nbins) |->
                                 [sp.v_toys_abs[b] EXCEPT ![i] = abs[b]]],
              !.m_sx_abs = [b \in Bins(sp.m_nbins) |-> RAdd(sp.m_sx_abs[b], abs[b])]] :
           sp \in {sp0}})

\* lines 705-730: replica data smeared, background subtracted, acceptance
\* applied and unfolded; yields [unfolder, rng]
ToyUnfold(sp0, rng0, acc) ==
    Value({[unfolder |-> do_unfold(set_data_histogram(
                             set_response_histogram(
                                 IF sp.method # "SimNeal" /\ sp.method # "HybSam"
                                 THEN reset(sp.unfolder) ELSE sp.unfolder,
                                 sp.h_response, FALSE),
                             Multiply(IF sp.ignore_background THEN toy.c
                                      ELSE Subtract(toy.c, sp.h_background), acc))),
            rng |-> toy.rng] :
           sp \in {sp0},
           toy \in {run_toy(sp0.h_data, sp0.h_data_error, sp0.m_toy_type, rng0)}})

\* lines 704-764: replica i. st = [sp, rng, fills_abs, fills_rel], acc and eff are
\* the nominal acceptance and efficiency of lines 687-700.
ToyStep(st0, acc, eff, i) ==
    Value({Value({
        IF RIsZero(integratedXs)
        THEN [st EXCEPT !.sp = Raise([st.sp EXCEPT !.unfolder = u.unfolder],
                                     "ZeroDivisionError"),
                        !.rng = u.rng]
        ELSE Value({
            [sp |-> Accumulate([st.sp EXCEPT !.unfolder = u.unfolder], i, abs, rel),
             rng |-> u.rng,
             fills_abs |-> [b \in Bins(st.sp.m_nbins) |->
                 Fill(st.fills_abs[b], ToyRange(st.sp, b, st.sp.h_absXs[b]), abs[b])],
             fills_rel |-> [b \in Bins(st.sp.m_nbins) |->
                 Fill(st.fills_rel[b], ToyRange(st.sp, b, st.sp.h_relXs[b]), rel[b])]] :
            rel \in {divide_by_bin_width(ScaleInv(abs1, integratedXs), st.sp.m_bins)},
            abs \in {divide_by_bin_width(abs1, st.sp.m_bins)}}) :
        integratedXs \in {Integral(abs1)}}) :
      st \in {st0}, u \in {ToyUnfold(st0.sp, st0.rng, acc)},
      abs1 \in {ScaleInv(Divide(ToyUnfold(st0.sp, st0.rng, acc).unfolder.h_unfolded, eff),
                         R(st0.sp.lumi))}})

\* line 704: replicas i..nToys, up to an exception
RECURSIVE ToyLoop(_, _, _, _)
ToyLoop(st0, acc0, eff0, i) ==
    Value({IF i > st.sp.nToys \/ st.sp.raised # "" THEN st
           ELSE ToyLoop(ToyStep(st, acc, eff, i), acc, eff, i + 1) :
           st \in {st0}, acc \in {acc0}, eff \in {eff0}})

\* lines 768-794: sums turned into means, toy RMS set as the bin errors
ToyMeans_sums(st) == st.sp
ToyMeans(st) ==
    [st.sp EXCEPT !.m_sx_abs = ScaleInv(st.sp.m_sx_abs, R(st.sp.nToys)),
                  !.m_sx_rel = ScaleInv(st.sp.m_sx_rel, R(st.sp.nToys)),
                  !.h_relXs_error2 = [b \in Bins(st.sp.m_nbins) |-> RMS2(st.fills_rel[b])],
                  !.h_absXs_error2 = [b \in Bins(st.sp.m_nbins) |-> RMS2(st.fills_abs[b])]]

\* lines 687-830 for nToys > 0; yields [sp, rng]
RunToys(sp, rng0) ==
    Value({IF looped.sp.raised # "" THEN [sp |-> looped.sp, rng |-> looped.rng]
           ELSE [sp |-> _build_matrices(ToyMeans(looped)), rng |-> looped.rng] :
           looped \in {ToyLoop(
               [sp |-> AllocToys(sp), rng |-> rng0,
                fills_abs |-> [b \in Bins(sp.m_nbins) |-> NoFills],
                fills_rel |-> [b \in Bins(sp.m_nbins) |-> NoFills]],
               Divide(ProjectionX(sp.h_response, Len(sp.h_data), sp.m_nbins),
                      sp.h_signal_reco),
               Divide(ProjectionY(sp.h_response, sp.m_nbins, sp.m_nbins),
                      sp.h_generated),
               1)}})

\* _run_toys_job; yields [sp, rng]
_run_toys_job(sp0, rng0) ==
    Value({IF sp.nToys <= 0 THEN [sp |-> sp, rng |-> rng0]
           ELSE IF \E b \in Bins(sp.m_nbins) : RIsZero(sp.h_data_minus_bkg[b])
           THEN [sp |-> Raise(sp, "ZeroDivisionError"), rng |-> rng0]
           ELSE RunToys(sp, rng0) :
           sp \in {[sp0 EXCEPT !.m_nbins = Len(sp0.h_absXs)]}})

\* compute_differential_cross_sections; yields [sp, rng]
compute_differential_cross_sections(sp0, rng0) ==
    Value({IF sp.raised # "" THEN [sp |-> sp, rng |-> rng0]
           ELSE _run_toys_job(sp, rng0) :
           sp \in {PointXs(PointUnfold(Raise(sp0, "")))}})

----------------------------------------------------------------------------
(* Spectrum.save *)

\* line 933: "self.h_absXs_covariance.Integral != 0" compares the bound method
\* Integral itself with 0, which is unequal for every histogram
IntegralIsNot0(sp) == TRUE

\* lines 931-951: yields the Spectrum after save. "written" holds the fields
\* whose histogram object m_output.Write() has put into the file.
save(sp0) ==
    Value({IF sp.lumi = 0 THEN Raise(s1, "ZeroDivisionError")
           ELSE IF RIsZero(Integral(sp.h_generated))
           THEN Raise([s1 EXCEPT !.directory["TheoryXs_abs"] = sp.m_output],
                      "ZeroDivisionError")
           ELSE [s1 EXCEPT !.directory["TheoryXs_abs"] = sp.m_output,
                           !.directory["TheoryXs_rel"] = sp.m_output,
                           !.written = {k \in HistKeys :
                               k \in TheoryKeys \/ s1.directory[k] = sp.m_output}] :
           sp \in {Raise(sp0, "")},
           s1 \in {IF IntegralIsNot0(sp0)
                   THEN [sp0 EXCEPT !.raised = "",
                                    !.directory = [k \in HistKeys |->
                                        IF k \in MatrixKeys THEN sp0.m_output
                                        ELSE sp0.directory[k]]]
                   ELSE Raise(sp0, "")}})

----------------------------------------------------------------------------
(* The Spectrum and its operations *)

\* systematic name and statErr setting: Poisson toys, Gauss toys, analytical
Configs == {<<"nominal", <<"toys">>>>, <<"MCstat", <<"toys">>>>,
            <<"nominal", <<"analytical">>>>}
Outputs == {<<>>, <<"output.root">>}
Backgrounds == {0, 1}
Errors == {0, 1}
Seeds == {0}

\* what a compute call reads (the input histograms) ...
InputsOf(sp) ==
    [h_data |-> sp.h_data, h_data_error |-> sp.h_data_error,
     h_background |-> sp.h_background, h_signal_reco |-> sp.h_signal_reco,
     h_generated |-> sp.h_generated, h_response |-> sp.h_response]

\* ... and what it leaves (the output histograms and the exception, if any)
OutputsOf(sp) ==
    [h_signal_truth |-> sp.h_signal_truth, h_efficiency |-> sp.h_efficiency,
     h_acceptance |-> sp.h_acceptance, h_data_unfolded |-> sp.h_data_unfolded,
     h_absXs |-> sp.h_absXs, h_relXs |-> sp.h_relXs,
     h_absXs_error2 |-> sp.h_absXs_error2, h_relXs_error2 |-> sp.h_relXs_error2,
     h_absXs_covariance |-> sp.h_absXs_covariance,
     h_relXs_covariance |-> sp.h_relXs_covariance,
     h_absXs_correlation |-> sp.h_absXs_correlation,
     h_relXs_correlation |-> sp.h_relXs_correlation,
     h_absXs_variance |-> sp.h_absXs_variance,
     h_relXs_variance |-> sp.h_relXs_variance,
     raised |-> sp.raised]

NoRun == [seed |-> -1]

\* Spectrum(config, systematic, output): _configure, _load_histograms, _initialize
Init ==
    /\ h2 = <<>> /\ h2_prev = <<>> /\ h2_orig = <<>> /\ ncalls = 0 /\ unf = <<>> /\ parse = <<>> /\ driver = <<>>
    /\ \E n \in 1..MaxBins, nToys \in 0..MaxToys, ignore_background \in BOOLEAN,
          output \in Outputs, cfg \in Configs,
          da \in 0..MaxCoef, b \in Backgrounds, e \in Errors :
            spectrum = _initialize(Loaded(n, nToys, ignore_background, output,
                                          cfg[1], cfg[2], da, b, e))
    /\ rng = 0
    /\ op = "construct"
    /\ pre = spectrum
    /\ run1 = NoRun
    /\ run0 = NoRun
    /\ nops = 0

\* a further call of Spectrum._initialize
Initialize ==
    /\ nops < MaxOps
    /\ spectrum' = _initialize(spectrum)
    /\ pre' = spectrum
    /\ op' = "_initialize"
    /\ nops' = nops + 1
    /\ UNCHANGED <<rng, run1, run0, histVars>>

Compute ==
    /\ nops < MaxOps
    /\ \E r \in {compute_differential_cross_sections(spectrum, rng)} :
          /\ spectrum' = r.sp
          /\ rng' = r.rng
          /\ run1' = [seed |-> rng, inputs |-> InputsOf(spectrum),
                      outputs |-> OutputsOf(r.sp)]
    /\ run0' = run1
    /\ pre' = spectrum
    /\ op' = "compute_differential_cross_sections"
    /\ nops' = nops + 1
    /\ UNCHANGED histVars

Save ==
    /\ nops < MaxOps
    /\ spectrum' = save(spectrum)
    /\ pre' = spectrum
    /\ op' = "save"
    /\ nops' = nops + 1
    /\ UNCHANGED <<rng, run1, run0, histVars>>

\* ROOT.gRandom.SetSeed
SetSeed ==
    /\ \E s \in Seeds : rng' = s
    /\ rng' # rng
    /\ UNCHANGED <<spectrum, pre, op, run1, run0, nops, histVars>>

\* the caller puts other contents into the measured histogram between two calls
ChangeMeasured ==
    /\ nops < MaxOps
    /\ \E da \in 0..MaxCoef :
          /\ Measured(Len(spectrum.h_data), da) # spectrum.h_data
          /\ spectrum' = [spectrum EXCEPT !.h_data = Measured(Len(spectrum.h_data), da)]
    /\ pre' = spectrum
    /\ op' = "change"
    /\ nops' = nops + 1
    /\ UNCHANGED <<rng, run1, run0, histVars>>

Next == Initialize \/ Compute \/ Save \/ SetSeed \/ ChangeMeasured

Spec == Init /\ [][Next]_vars

----------------------------------------------------------------------------
(* The Spectrum on a measured histogram that lies above its background,     *)
(* so that replicas are drawn and unfolded with a background subtracted     *)

\* as Loaded, with 2 * b more in every bin of the measured histogram, and
\* with no error on the last bin of a measured histogram of several bins
LoadedB(n, nToys, ignore_background, syst_name, staterr, da, b, e) ==
    [Loaded(n, nToys, ignore_background, <<>>, syst_name, staterr, da, b, e) EXCEPT
        !.h_data = [i \in Bins(n) |-> RAdd(Measured(n, da)[i], R(2 * b))],
        !.h_data_error = [i \in Bins(n) |-> IF n > 1 /\ i = n THEN Zero ELSE R(e)]]

InitB ==
    /\ h2 = <<>> /\ h2_prev = <<>> /\ h2_orig = <<>> /\ ncalls = 0 /\ unf = <<>> /\ parse = <<>> /\ driver = <<>>
    /\ \E n \in 1..MaxBins, nToys \in 0..MaxToys, ignore_background \in BOOLEAN,
          cfg \in Configs, da \in 0..MaxCoef, b \in Backgrounds, e \in Errors :
            spectrum = _initialize(LoadedB(n, nToys, ignore_background,
                                           cfg[1], cfg[2], da, b, e))
    /\ rng = 0
    /\ op = "construct"
    /\ pre = spectrum
    /\ run1 = NoRun
    /\ run0 = NoRun
    /\ nops = 0

\* computes, with the generator reseeded and the measured histogram changed
\* in between
NextB == Compute \/ SetSeed \/ ChangeMeasured

SpecB == InitB /\ [][NextB]_vars

----------------------------------------------------------------------------
(* The Spectrum on further inputs: a response with more reco bins than truth *)
(* bins, a generated histogram (read from its own file) with an empty bin,   *)
(* and further statErr settings.                                             *)

MaxExtra == 1

\* statErr settings beyond those of Configs: an explicit toy type, and strings
\* that are none of "analytical", "toys", "toys:TYPE"
ConfigsX == Configs \cup
            {<<"MCstat", <<"toys", "Poisson">>>>, <<"nominal", <<"">>>>,
             <<"nominal", <<"bogus">>>>, <<"nominal", <<"toys", "a", "b">>>>}

\* a response with nr reco bins and nt truth bins: 2 on the diagonal, da % 2
\* off it, 1 in the reco bins above nt
ResponseX(nr, nt, da) ==
    [p \in Bins(nr) \X Bins(nt) |->
        IF p[1] = p[2] THEN R(2) ELSE IF p[1] > nt THEN R(1) ELSE R(da % 2)]

\* as Loaded, with nt truth bins and nt + x reco bins, and bin 1 of the
\* generated histogram empty if z
LoadedX(nt, x, nToys, syst_name, staterr, da, b, e, z) ==
    [Loaded(nt, nToys, FALSE, <<>>, syst_name, staterr, da, b, e) EXCEPT
        !.h_data = Measured(nt + x, da),
        !.h_data_error = [i \in Bins(nt + x) |-> R(e)],
        !.h_response = ResponseX(nt + x, nt, da),
        !.h_signal_reco = [r \in Bins(nt + x) |->
            RAdd(ProjectionX(ResponseX(nt + x, nt, da), nt + x, nt)[r], R(da % 2))],
        !.h_generated = [t \in Bins(nt) |->
            IF z /\ t = 1 THEN Zero
            ELSE RMul(R(2), ProjectionY(ResponseX(nt + x, nt, da), nt, nt + x)[t])],
        !.h_background = [i \in Bins(nt + x) |-> R(b)]]

InitX ==
    /\ h2 = <<>> /\ h2_prev = <<>> /\ h2_orig = <<>> /\ ncalls = 0 /\ unf = <<>> /\ parse = <<>> /\ driver = <<>>
    /\ \E nt \in 1..MaxBins, x \in 0..MaxExtra, nToys \in 0..MaxToys,
          cfg \in ConfigsX, da \in 0..MaxCoef, b \in Backgrounds, e \in Errors,
          z \in BOOLEAN :
            spectrum = _initialize(LoadedX(nt, x, nToys, cfg[1], cfg[2], da, b, e, z))
    /\ rng = 0
    /\ op = "construct"
    /\ pre = spectrum
    /\ run1 = NoRun
    /\ run0 = NoRun
    /\ nops = 0

SpecX == InitX /\ [][Next]_vars

----------------------------------------------------------------------------
(* The Unfolder used on its own: constructed with any method name, then      *)
(* set_data_histogram, set_response_histogram, do_unfold and reset in any    *)
(* order. op is the latest call, pre the Unfolder before it. h2 holds the    *)
(* histogram objects, each a name and its contents: data and response are    *)
(* the caller's, u_data and u_response the Unfolder's h_data and h_response, *)
(* results the objects do_unfold has bound to h_unfolded, in order.          *)

MaxUnfolderCalls == 4

\* method names handed to the constructor: one do_unfold knows, two it does not
MethodNames == {"BinByBin", "HybSam", "binbybin", ""}

UnfolderErrors == {"kNoError", "kCovToy"}

\* a variant of THCopy that copies in the other direction
THCopy_reversed(objs, from, to) == [objs EXCEPT ![from] = objs[to]]

\* objs[from].Copy(objs[to]): TObject::Copy makes its argument a copy of the
\* object it is called on
THCopy(objs, from, to) == [objs EXCEPT ![to] = objs[from]]

SetName(objs, id, name) == [objs EXCEPT ![id].name = name]

InitU ==
    /\ \E n \in 1..MaxBins, nr \in 1..MaxBins, nt \in 1..MaxBins, da \in 0..MaxCoef,
          skew \in BOOLEAN :
          h2 = [data |-> [name |-> "test_data", c |-> Measured(n, da)],
                response |-> [name |-> "test_response",
                              c |-> [p \in Bins(nr) \X Bins(nt) |->
                                       IF skew /\ p = <<1, 2>> THEN R(3)
                                       ELSE ResponseX(nr, nt, da)[p]]],
                u_data |-> [name |-> "", c |-> Unset],
                u_response |-> [name |-> "", c |-> Unset],
                results |-> <<>>]
    /\ h2_prev = h2 /\ h2_orig = h2 /\ ncalls = 0 /\ parse = <<>> /\ driver = <<>>
    /\ \E method \in MethodNames, error \in UnfolderErrors :
          unf = NewUnfolder(method, error, MaxToys)
    /\ spectrum = <<>> /\ rng = 0 /\ run1 = <<>> /\ run0 = <<>>
    /\ op = "Unfolder"
    /\ pre = unf
    /\ nops = 0

\* what every call on the Unfolder leaves alone, and the bookkeeping
UnfolderCall(name) ==
    /\ nops < MaxUnfolderCalls
    /\ nops' = nops + 1
    /\ op' = name
    /\ pre' = unf
    /\ h2_prev' = h2
    /\ UNCHANGED <<h2_orig, ncalls, parse, driver, spectrum, rng, run1, run0>>

\* unfolder.set_data_histogram(data)
SetData ==
    /\ h2' = SetName(THCopy(h2, "data", "u_data"), "u_data", "unf_Data")
    /\ unf' = set_data_histogram(unf, h2'.u_data.c)
    /\ UnfolderCall("set_data_histogram")

\* unfolder.set_response_histogram(response, to_transpose)
SetResponse ==
    /\ \E to_transpose \in BOOLEAN :
          /\ unf' = set_response_histogram(
                 unf, THCopy(h2, "response", "u_response").u_response.c, to_transpose)
          /\ h2' = [SetName(THCopy(h2, "response", "u_response"),
                            "u_response", "unf_Response")
                    EXCEPT !.u_response.c = unf'.h_response]
    /\ UnfolderCall("set_response_histogram")

\* do_unfold, once a data histogram and a response have been set: h_unfolded
\* is bound to the histogram Hunfold has made, which is then named
DoUnfold ==
    /\ unf.h_data # Unset /\ unf.h_response # Unset
    /\ unf' = do_unfold(unf)
    /\ h2' = IF unf'.raised # "" THEN h2
             ELSE [h2 EXCEPT !.results =
                      Append(h2.results, [name |-> "unf_Unfolded", c |-> unf'.h_unfolded])]
    /\ UnfolderCall("do_unfold")

ResetUnfolder ==
    /\ unf' = reset(unf)
    /\ h2' = h2
    /\ UnfolderCall("reset")

NextU == SetData \/ SetResponse \/ DoUnfold \/ ResetUnfolder

SpecU == InitU /\ [][NextU]_vars

----------------------------------------------------------------------------
(* utils/Statistics.py, run_toy called on a histogram of its own. h2 is the  *)
(* histogram: contents c, bin errors e (set by the caller), and the toy type *)
(* of the calls; pre is the generator state before the latest call.          *)

\* "Poisson", or any other string for Gaussian smearing
ToyTypes == {"Poisson", "Gauss"}

\* a histogram with bin i holding ca * (i - 1) + cb, with error ea * i
MakeToyHist(n, ca, cb, ea, toy_type) ==
    [c |-> [i \in Bins(n) |-> R(ca * (i - 1) + cb)],
     e |-> [i \in Bins(n) |-> R(ea * i)],
     toy_type |-> toy_type]

InitR ==
    /\ \E n \in 1..MaxBins, ca, cb, ea \in 0..MaxCoef, toy_type \in ToyTypes :
          h2 = MakeToyHist(n, ca, cb, ea, toy_type)
    /\ h2_prev = h2
    /\ h2_orig = h2
    /\ ncalls = 0
    /\ unf = <<>> /\ parse = <<>> /\ driver = <<>>
    /\ rng \in 0..(NumSeeds - 1)
    /\ pre = rng
    /\ spectrum = <<>> /\ op = "" /\ run1 = <<>> /\ run0 = <<>> /\ nops = 0

\* run_toy(histo, toy_type)
RunToy ==
    /\ ncalls < MaxCalls
    /\ \E st \in {run_toy(h2.c, h2.e, h2.toy_type, rng)} :
          /\ h2' = [h2 EXCEPT !.c = st.c]
          /\ rng' = st.rng
    /\ h2_prev' = h2
    /\ pre' = rng
    /\ ncalls' = ncalls + 1
    /\ UNCHANGED <<h2_orig, unf, parse, driver, spectrum, op, run1, run0, nops>>

NextR == RunToy

SpecR == InitR /\ [][NextR]_vars

----------------------------------------------------------------------------
(* utils/Generic.py: try_parse_str, try_parse_int, try_parse_float. The      *)
(* element tree is a function from the names of the children of root to      *)
(* their attributes, each a function from attribute names to texts; a text   *)
(* is a sequence of characters. parse is the latest call: its arguments and  *)
(* what it returned.                                                         *)

MaxLen == 2

Chars == {"4", "2", "-", ".", " ", "x"}

Texts == UNION {[1..n -> Chars] : n \in 0..MaxLen}

\* str.strip(), as int() and float() apply it to their argument
RECURSIVE Strip(_)
Strip(t) ==
    IF t = <<>> THEN t
    ELSE IF Head(t) = " " THEN Strip(Tail(t))
    ELSE IF t[Len(t)] = " " THEN Strip(SubSeq(t, 1, Len(t) - 1))
    ELSE t

\* the number a sequence of decimal digits denotes, -1 if the sequence holds
\* another character; 0 for the empty sequence
RECURSIVE ParseDigits(_)
ParseDigits(t) ==
    IF t = <<>> THEN 0
    ELSE IF t[Len(t)] \notin {"2", "4"} THEN -1
    ELSE Value({IF front < 0 THEN -1
                ELSE 10 * front + (IF t[Len(t)] = "4" THEN 4 ELSE 2) :
                front \in {ParseDigits(SubSeq(t, 1, Len(t) - 1))}})

\* a variant of int() that takes the text for 0 where it is no integer
int__lenient(t) == [ok |-> TRUE, value |-> 0]

\* int(text): surrounding blanks, a sign, one or more digits; ok is FALSE where
\* int() raises ValueError
int_(t) ==
    LET s == Strip(t)
        neg == s # <<>> /\ Head(s) = "-"
        body == IF neg THEN Tail(s) ELSE s
    IN IF body = <<>> \/ ParseDigits(body) < 0 THEN [ok |-> FALSE, value |-> 0]
       ELSE [ok |-> TRUE,
             value |-> IF neg THEN -ParseDigits(body) ELSE ParseDigits(body)]

\* float(text): surrounding blanks, a sign, digits with at most one point and
\* at least one digit; the value as a fraction
float_(t) ==
    LET s == Strip(t)
        neg == s # <<>> /\ Head(s) = "-"
        body == IF neg THEN Tail(s) ELSE s
        dots == {i \in DOMAIN body : body[i] = "."}
        dot == IF dots = {} THEN Len(body) + 1 ELSE CHOOSE i \in dots : TRUE
        ip == SubSeq(body, 1, dot - 1)
        fp == SubSeq(body, dot + 1, Len(body))
        scale == IF Len(fp) = 0 THEN 1 ELSE IF Len(fp) = 1 THEN 10
                 ELSE IF Len(fp) = 2 THEN 100 ELSE 1000
    IN IF Cardinality(dots) > 1 \/ Len(ip) + Len(fp) = 0
          \/ ParseDigits(ip) < 0 \/ ParseDigits(fp) < 0
       THEN [ok |-> FALSE, value |-> Zero]
       ELSE [ok |-> TRUE,
             value |-> RNorm((IF neg THEN -1 ELSE 1) *
                                 (ParseDigits(ip) * scale + ParseDigits(fp)), scale)]

\* root.find(key).attrib[elem]: ok is FALSE where find returns None
\* (AttributeError) or the attribute is missing (KeyError)
Attrib(root, key, elem) ==
    IF key \in DOMAIN root /\ elem \in DOMAIN root[key]
    THEN [ok |-> TRUE, text |-> root[key][elem]]
    ELSE [ok |-> FALSE, text |-> <<>>]

try_parse_str(var, root, key, elem) ==
    IF Attrib(root, key, elem).ok THEN Attrib(root, key, elem).text ELSE var

try_parse_int(var, root, key, elem) ==
    IF Attrib(root, key, elem).ok /\ int_(Attrib(root, key, elem).text).ok
    THEN int_(Attrib(root, key, elem).text).value ELSE var

try_parse_float(var, root, key, elem) ==
    IF Attrib(root, key, elem).ok /\ float_(Attrib(root, key, elem).text).ok
    THEN float_(Attrib(root, key, elem).text).value ELSE var

\* element trees: no child, a child "key" without attributes, a child "key"
\* with the attribute "elem"
Roots == {<<>>, [k \in {"key"} |-> <<>>]} \cup
         {[k \in {"key"} |-> [a \in {"elem"} |-> t]] : t \in Texts}

InitP ==
    /\ h2 = <<>> /\ h2_prev = <<>> /\ h2_orig = <<>> /\ ncalls = 0 /\ unf = <<>>
    /\ driver = <<>>
    /\ NoSpectrum
    /\ \E root \in Roots :
          parse = [root |-> root, fn |-> "", var |-> <<>>, key |-> "", elem |-> "",
                   result |-> <<>>]

\* one call try_parse_*(var, root, key, elem), with a default of the type asked for
TryParse ==
    /\ ncalls < MaxCalls
    /\ ncalls' = ncalls + 1
    /\ \E key \in {"key", "other"}, elem \in {"elem", "other"} :
          \/ \E var \in {<<>>, <<"x">>} :
                parse' = [parse EXCEPT !.fn = "try_parse_str", !.var = var,
                             !.key = key, !.elem = elem,
                             !.result = try_parse_str(var, parse.root, key, elem)]
          \/ \E var \in {0, 7} :
                parse' = [parse EXCEPT !.fn = "try_parse_int", !.var = var,
                             !.key = key, !.elem = elem,
                             !.result = try_parse_int(var, parse.root, key, elem)]
          \/ \E var \in {Zero, R(7)} :
                parse' = [parse EXCEPT !.fn = "try_parse_float", !.var = var,
                             !.key = key, !.elem = elem,
                             !.result = try_parse_float(var, parse.root, key, elem)]
    /\ UNCHANGED <<h2, h2_prev, h2_orig, unf, driver>>
    /\ UNCHANGED spectrumVars

NextP == TryParse

SpecP == InitP /\ [][NextP]_vars

----------------------------------------------------------------------------
(* The driver, PyXSec.py: the command line parsed, then main()              *)

\* the values an option is given on the command line
OptionValues == {"config.xml", "out.root", "MCstat"}

\* a Python call with nargs positional arguments of a function whose
\* parameters (after self) are params, the last ndefaults of them with a
\* default: the exception the binding of the arguments raises, "" for none
Call(params, ndefaults, nargs) ==
    IF nargs > Len(params) \/ nargs < Len(params) - ndefaults THEN "TypeError"
    ELSE ""

\* main(): Spectrum(args.config, args.systematic) against
\* __init__(self, config, systematic, output), then
\* compute_differential_cross_sections() against (self, error="kNoError"),
\* then save(args.output) against save(self). "done" lists the calls that
\* returned, "written" names the file save wrote.
main(d) ==
    IF Call(<<"config", "systematic", "output">>, 0, 2) # ""
    THEN [d EXCEPT !.raised = Call(<<"config", "systematic", "output">>, 0, 2)]
    ELSE IF Call(<<"error">>, 1, 0) # ""
    THEN [d EXCEPT !.done = <<"Spectrum">>, !.raised = Call(<<"error">>, 1, 0)]
    ELSE IF Call(<<>>, 0, 1) # ""
    THEN [d EXCEPT !.done = <<"Spectrum", "compute_differential_cross_sections">>,
                   !.raised = Call(<<>>, 0, 1)]
    ELSE [d EXCEPT !.done = <<"Spectrum", "compute_differential_cross_sections",
                              "save">>,
                   !.written = d.args.output]

\* lines 22-41: every option is given or left at its default
InitM ==
    /\ h2 = <<>> /\ h2_prev = <<>> /\ h2_orig = <<>> /\ ncalls = 0 /\ unf = <<>>
    /\ parse = <<>>
    /\ NoSpectrum
    /\ \E config \in {""} \cup OptionValues,
          output \in {"output.root"} \cup OptionValues,
          systematic \in {"nominal"} \cup OptionValues :
            driver = [args |-> [config |-> config, output |-> output,
                                systematic |-> systematic],
                      step |-> "parsed", done |-> <<>>, raised |-> "",
                      written |-> ""]

\* line 43
Main ==
    /\ driver.step = "parsed"
    /\ driver' = [main(driver) EXCEPT !.step = "exited"]
    /\ UNCHANGED <<h2, h2_prev, h2_orig, ncalls, unf, parse>>
    /\ UNCHANGED spectrumVars

SpecM == InitM /\ [][Main]_vars

----------------------------------------------------------------------------
(* utils/Statistics.py, divide_by_bin_width on a histogram object            *)
(* A histogram is a record: dim (1 for a TH1D, 2 for a TH2D), nx, ny (ny = 0 *)
(* for a TH1D), the bin widths wx, wy, and contents c and sums of squared    *)
(* weights sumw2 over the cells <<bx, by>>, under- and overflow included     *)
(* (by = 0 only, for a TH1D). Values are fractions; <<0, 0>> is the float    *)
(* nan. The bin error is the square root of sumw2.                           *)

MaxWidth == 2

NaN == <<0, 0>>

IsNaN(a) == a[2] = 0

\* Python float division by a non-zero float: nan if either side is nan
FloatDiv(a, w) == IF IsNaN(a) \/ IsNaN(w) THEN NaN ELSE RDiv(a, w)

FloatMul(a, b) == IF IsNaN(a) \/ IsNaN(b) THEN NaN ELSE RMul(a, b)

\* square root of a fraction that is a square
RSqrt(a) == IF IsNaN(a) THEN NaN ELSE <<Isqrt(a[1]), Isqrt(a[2])>>

HCells(h) == (0..(h.nx + 1)) \X (0..(IF h.dim = 1 THEN 0 ELSE h.ny + 1))

\* the cell a single bin number i in 1..nx addresses: the global bin i is
\* <<i, 0>>, the i-th bin of a TH1D and a cell of the Y-underflow row of a TH2D
GlobalBin(h, i) == <<i, 0>>

\* TH1.GetBinWidth(bin): the X-axis width on a one-dimensional histogram; on a
\* histogram of another dimension, depending on the ROOT release, an error
\* message and nan, or the width of the X-axis bin of that number
GetBinWidth(h, i) ==
    IF h.dim = 1 THEN R(h.wx[i])
    ELSE IF h.nanWidth THEN NaN
    ELSE R(h.wx[i])

HGetBinContent(h, i) == h.c[GlobalBin(h, i)]

HGetBinError(h, i) == RSqrt(h.sumw2[GlobalBin(h, i)])

HSetBinContent(h, i, v) == [h EXCEPT !.c[GlobalBin(h, i)] = v]

HSetBinError(h, i, e) == [h EXCEPT !.sumw2[GlobalBin(h, i)] = FloatMul(e, e)]

\* isinstance(histo, ROOT.TH1): TH2 derives from TH1
IsTH1(h) == h.dim \in {1, 2}

IsTH2(h) == h.dim = 2

\* a variant of the TH1 loop body that leaves the bin error as it is
DivideBin_contentOnly(h, i) ==
    HSetBinContent(h, i, FloatDiv(HGetBinContent(h, i), GetBinWidth(h, i)))

\* the body of the loop of the TH1 branch, for bin i
DivideBin(h, i) ==
    HSetBinError(
        HSetBinContent(h, i, FloatDiv(HGetBinContent(h, i), GetBinWidth(h, i))),
        i, FloatDiv(HGetBinError(h, i), GetBinWidth(h, i)))

\* for i in range(1, histo.GetNbinsX() + 1)
RECURSIVE DivideLoop(_, _)
DivideLoop(h, i) ==
    IF i > h.nx THEN h ELSE DivideLoop(DivideBin(h, i), i + 1)

\* the elif branch: every cell <<i, j>> in range divided by widthX * widthY
DivideCells(h) ==
    [h EXCEPT
        !.c = [p \in HCells(h) |->
                  IF p[1] \in 1..h.nx /\ p[2] \in 1..h.ny
                  THEN FloatDiv(h.c[p], R(h.wx[p[1]] * h.wy[p[2]]))
                  ELSE h.c[p]],
        !.sumw2 = [p \in HCells(h) |->
                  IF p[1] \in 1..h.nx /\ p[2] \in 1..h.ny
                  THEN Value({FloatMul(e, e) : e \in
                          {FloatDiv(RSqrt(h.sumw2[p]),
                                    R(h.wx[p[1]] * h.wy[p[2]]))}})
                  ELSE h.sumw2[p]]]

divide_by_bin_width_histo(h) ==
    IF IsTH1(h) THEN DivideLoop(h, 1)
    ELSE IF IsTH2(h) THEN DivideCells(h)
    ELSE h

\* TH1D / TH2D with contents and errors set: widths 1 except the last bin of
\* each axis, cell <<i, j>> in range holds ca * (i + j) + cb with error
\* ea * i, the under- and overflow cells hold ov with error ov
MakeTH(dim, nx, ny, wa, wb, ca, cb, ea, ov, nanWidth) ==
    [dim |-> dim, nx |-> nx, ny |-> ny, nanWidth |-> nanWidth,
     wx |-> [i \in 0..(nx + 1) |-> IF i = nx THEN wa ELSE 1],
     wy |-> [j \in 0..(ny + 1) |-> IF j = ny THEN wb ELSE 1],
     c |-> [p \in (0..(nx + 1)) \X (0..(IF dim = 1 THEN 0 ELSE ny + 1)) |->
              IF p[1] \in 1..nx /\ (dim = 1 \/ p[2] \in 1..ny)
              THEN R(ca * (p[1] + p[2]) + cb) ELSE R(ov)],
     sumw2 |-> [p \in (0..(nx + 1)) \X (0..(IF dim = 1 THEN 0 ELSE ny + 1)) |->
              IF p[1] \in 1..nx /\ (dim = 1 \/ p[2] \in 1..ny)
              THEN R((ea * p[1]) * (ea * p[1])) ELSE R(ov * ov)]]

InitD ==
    /\ NoSpectrum
    /\ \E dim \in {1, 2}, nx \in 1..MaxBins, wa, wb \in 1..MaxWidth,
          ca, cb, ea, ov \in 0..MaxCoef, nanWidth \in BOOLEAN :
          \E ny \in (IF dim = 1 THEN {0} ELSE 1..MaxBins) :
              /\ dim = 1 => (wb = 1 /\ ~nanWidth)
              /\ h2 = MakeTH(dim, nx, ny, wa, wb, ca, cb, ea, ov, nanWidth)
    /\ h2_prev = h2
    /\ h2_orig = h2
    /\ ncalls = 0
    /\ unf = <<>> /\ parse = <<>> /\ driver = <<>>

\* divide_by_bin_width(histo)
DivideByBinWidth ==
    /\ ncalls < MaxCalls
    /\ h2_prev' = h2
    /\ h2' = divide_by_bin_width_histo(h2)
    /\ ncalls' = ncalls + 1
    /\ UNCHANGED <<h2_orig, unf, parse, driver>>
    /\ UNCHANGED spectrumVars

NextD == DivideByBinWidth

SpecD == InitD /\ [][NextD]_vars

----------------------------------------------------------------------------
(* Claims about the Spectrum, checked under Spec *)

Computed == op = "compute_differential_cross_sections"

\* a compute call with toys has returned normally, matrices built
MatricesBuilt == Computed /\ spectrum.raised = "" /\ spectrum.nToys > 0

\* C1 (as claimed): _initialize on a Spectrum that is already initialized
\* changes no state of the Spectrum: output name, output file handle, Unfolder
\* and data-minus-background are all as before the call.
C1_SecondInitializeNoOp ==
    (op = "_initialize" /\ pre.is_initialized) => spectrum = pre

\* C2: two compute calls on the same Spectrum that start from the same seed and
\* read the same input histograms leave the same output histograms (and end
\* the same way).
C2_SameSeedSameOutputs ==
    (run0.seed >= 0 /\ run1.seed = run0.seed /\ run1.inputs = run0.inputs) =>
        run1.outputs = run0.outputs

\* C2 witness: a second compute call with toys, restarted from the seed of the
\* first, has built its matrices, and the first call had moved the generator.
C2_Witness ==
    /\ MatricesBuilt
    /\ run0.seed >= 0 /\ run1.seed = run0.seed /\ run1.inputs = run0.inputs
    /\ rng # run1.seed
    /\ run1.outputs.h_absXs_covariance # ZeroMatrix(spectrum.m_nbins)

\* C3 (as claimed): with nToys = 0, after compute and save the output holds none
\* of the covariance, correlation and variance histograms, and AbsoluteDiffXs
\* and RelativeDiffXs hold the point estimates.
C3_NoMatricesWithoutToys ==
    (op = "save" /\ spectrum.raised = "" /\ spectrum.nToys = 0
        /\ pre.raised = "" /\ run1.seed >= 0 /\ run1.outputs.raised = "") =>
        /\ spectrum.written \cap MatrixKeys = {}
        /\ spectrum.h_absXs = run1.outputs.h_absXs
        /\ spectrum.h_relXs = run1.outputs.h_relXs

\* C4 (as claimed): after a compute call the data-minus-background of the
\* Spectrum is the one derived from the measured and background histograms the
\* Spectrum holds at that call.
C4_DataMinusBkgRecomputed ==
    Computed => spectrum.h_data_minus_bkg = SubtractBackground(spectrum)

\* C5: after _build_matrices has returned for nToys > 0, cell (i,j) equals cell
\* (j,i) in the absolute and relative covariance and correlation matrices.
C5_MatricesSymmetric ==
    MatricesBuilt =>
        \A i \in Bins(spectrum.m_nbins), j \in Bins(spectrum.m_nbins) :
            /\ spectrum.h_absXs_covariance[<<i, j>>] = spectrum.h_absXs_covariance[<<j, i>>]
            /\ spectrum.h_relXs_covariance[<<i, j>>] = spectrum.h_relXs_covariance[<<j, i>>]
            /\ spectrum.h_absXs_correlation[<<i, j>>] = spectrum.h_absXs_correlation[<<j, i>>]
            /\ spectrum.h_relXs_correlation[<<i, j>>] = spectrum.h_relXs_correlation[<<j, i>>]

\* C5 witness: matrices built over two bins with non-zero off-diagonal cells.
C5_Witness ==
    /\ MatricesBuilt /\ spectrum.m_nbins >= 2
    /\ ~RIsZero(spectrum.h_absXs_covariance[<<2, 1>>])
    /\ ~RIsZero(spectrum.h_relXs_correlation[<<2, 1>>])

\* C6: after _build_matrices has returned, every bin whose toy values have
\* non-zero variance has correlation 1 with itself, absolute and relative.
C6_CorrelationDiagonalOne ==
    MatricesBuilt =>
        \A i \in Bins(spectrum.m_nbins) :
            /\ ~RIsZero(spectrum.h_absXs_covariance[<<i, i>>]) =>
                   spectrum.h_absXs_correlation[<<i, i>>] = One
            /\ ~RIsZero(spectrum.h_relXs_covariance[<<i, i>>]) =>
                   spectrum.h_relXs_correlation[<<i, i>>] = One

\* C6 witness: matrices built with a variance that is neither 0 nor 1.
C6_Witness ==
    /\ MatricesBuilt
    /\ \E i \in Bins(spectrum.m_nbins) :
          /\ ~RIsZero(spectrum.h_absXs_covariance[<<i, i>>])
          /\ spectrum.h_absXs_covariance[<<i, i>>] # One

\* the arithmetic mean of the values stored for bin b, and the mean product of
\* the deviations of bins i and j, over the N replicas
MeanOf(v, b, N) == RDiv(RSum(v[b], N), R(N))
CovOf(v, i, j, N) ==
    RDiv(RSum([t \in 1..N |-> RMul(RSub(v[i][t], MeanOf(v, i, N)),
                                   RSub(v[j][t], MeanOf(v, j, N)))], N), R(N))

\* C7: for i >= j the covariance cell (i,j) is (1/N) * the sum over the N
\* replicas of (x_i,n - mean_i)(x_j,n - mean_j), with mean_b the sum of the
\* stored values of bin b divided by nToys; variance bin i is cell (i,i).
C7_CovarianceFormula ==
    MatricesBuilt =>
        \A i \in Bins(spectrum.m_nbins) :
            /\ spectrum.m_sx_abs[i] = MeanOf(spectrum.v_toys_abs, i, spectrum.nToys)
            /\ spectrum.m_sx_rel[i] = MeanOf(spectrum.v_toys_rel, i, spectrum.nToys)
            /\ spectrum.h_absXs_variance[i] = spectrum.h_absXs_covariance[<<i, i>>]
            /\ spectrum.h_relXs_variance[i] = spectrum.h_relXs_covariance[<<i, i>>]
            /\ \A j \in 1..i :
                  /\ spectrum.h_absXs_covariance[<<i, j>>] =
                         CovOf(spectrum.v_toys_abs, i, j, spectrum.nToys)
                  /\ spectrum.h_relXs_covariance[<<i, j>>] =
                         CovOf(spectrum.v_toys_rel, i, j, spectrum.nToys)

\* C7 witness: matrices built from replicas that differ, with a mean that is
\* not the sum of the stored values.
C7_Witness ==
    /\ MatricesBuilt /\ spectrum.m_nbins >= 2 /\ spectrum.nToys >= 2
    /\ spectrum.v_toys_abs[2][1] # spectrum.v_toys_abs[2][2]
    /\ ~RIsZero(spectrum.h_absXs_covariance[<<2, 1>>])

\* the acceptance of reco bin r: the response summed over the truth bins,
\* over the reconstructed signal
AcceptanceOf(r) ==
    RDiv(RSum([t \in Bins(spectrum.m_nbins) |-> spectrum.h_response[<<r, t>>]],
              spectrum.m_nbins),
         spectrum.h_signal_reco[r])

\* (measured - background) * acceptance, or measured * acceptance without a
\* background, per reco bin
CorrectedData ==
    [r \in Bins(Len(spectrum.h_data)) |->
        RMul(IF spectrum.ignore_background THEN spectrum.h_data[r]
             ELSE RSub(spectrum.h_data[r], spectrum.h_background[r]),
             AcceptanceOf(r))]

\* the stored data-minus-background is the one of the measured and background
\* histograms the Spectrum holds
DataMinusBkgInSync ==
    \A r \in Bins(Len(spectrum.h_data)) :
        spectrum.h_data_minus_bkg[r] =
            (IF spectrum.ignore_background THEN spectrum.h_data[r]
             ELSE RSub(spectrum.h_data[r], spectrum.h_background[r]))

\* the point estimate was unfolded from histogram h: DataUnfolded is the
\* unfolding of h, and without replicas the Unfolder still holds h
PointEstimateFrom(h) ==
    /\ spectrum.h_data_unfolded = Hunfold(h, spectrum.h_response)
    /\ spectrum.nToys = 0 => spectrum.unfolder.h_data = h

C21_NormalisedXs ==
    (Computed /\ ~RIsZero(spectrum.m_totalXs)) =>
        /\ RSum([b \in Bins(spectrum.m_nbins) |->
                    RMul(spectrum.h_relXs[b], R(spectrum.m_bins[b]))],
                spectrum.m_nbins) = One
        /\ \A b \in Bins(spectrum.m_nbins) :
              spectrum.h_absXs[b] =
                  RDiv(RDiv(RDiv(spectrum.h_data_unfolded[b], spectrum.h_efficiency[b]),
                            R(spectrum.m_bins[b])),
                       R(spectrum.lumi))

\* C21 witness: a compute call over two bins with a total cross-section other
\* than 0 and 1, a bin of width 2 and luminosity 2 has returned.
C21_Witness ==
    /\ Computed /\ spectrum.raised = "" /\ spectrum.m_nbins >= 2
    /\ ~RIsZero(spectrum.m_totalXs) /\ spectrum.m_totalXs # One
    /\ spectrum.lumi > 1
    /\ \E b \in Bins(spectrum.m_nbins) :
          spectrum.m_bins[b] > 1 /\ ~RIsZero(spectrum.h_absXs[b])

\* the calls a compute makes on the Unfolder for the point estimate (lines
\* 867-870) and for one replica (lines 705-727)
PointCalls == <<"set_data_histogram", "set_response_histogram", "do_unfold">>
ToyCalls(method) ==
    (IF method # "SimNeal" /\ method # "HybSam" THEN <<"reset">> ELSE <<>>)
        \o <<"set_response_histogram", "set_data_histogram", "do_unfold">>

RECURSIVE Repeated(_, _)
Repeated(s, n) == IF n <= 0 THEN <<>> ELSE s \o Repeated(s, n - 1)

IsPrefix(a, b) == Len(a) <= Len(b) /\ SubSeq(b, 1, Len(a)) = a

\* the calls the latest operation made on the Unfolder
CallsMade ==
    SubSeq(spectrum.unfolder.calls, Len(pre.unfolder.calls) + 1,
           Len(spectrum.unfolder.calls))

RECURSIVE ReplicaInput(_)
ReplicaInput(t) ==
    run_toy(spectrum.h_data, spectrum.h_data_error, spectrum.m_toy_type,
            IF t = 1 THEN run1.seed ELSE ReplicaInput(t - 1).rng)

\* replica t of the latest compute ran to its end: a later replica reached its
\* do_unfold, or the compute returned
ReplicaDone(t) ==
    \/ spectrum.raised = ""
    \/ Cardinality({k \in DOMAIN CallsMade : CallsMade[k] = "do_unfold"}) > 1 + t

BeforeToys == PointXs(PointUnfold(Raise(pre, "")))

\* what _run_toys_job writes: the toy errors of AbsoluteDiffXs and
\* RelativeDiffXs, the accumulators, the matrices, the state of the Unfolder,
\* and the exception it ends with
ToyWritten ==
    MatrixKeys \cup {"h_absXs_error2", "h_relXs_error2", "m_sx_abs", "m_sx_rel",
                     "v_toys_abs", "v_toys_rel", "unfolder", "raised"}

ReplicaValues(smeared) ==
    Value({[abs |-> divide_by_bin_width(abs1, spectrum.m_bins),
            rel |-> divide_by_bin_width(ScaleInv(abs1, Integral(abs1)),
                                        spectrum.m_bins)] :
           abs1 \in {ScaleInv(
               Divide(do_unfold(set_data_histogram(
                          set_response_histogram(
                              NewUnfolder(spectrum.unfolder.method,
                                          spectrum.unfolder.error,
                                          spectrum.unfolder.nToys),
                              spectrum.h_response, FALSE),
                          Multiply(IF spectrum.ignore_background THEN smeared
                                   ELSE Subtract(smeared, spectrum.h_background),
                                   spectrum.h_acceptance))).h_unfolded,
                      spectrum.h_efficiency),
               R(spectrum.lumi))}})

\* the orders the replicas 1..n can be taken in
Orders(n) == {f \in [1..n -> 1..n] : \A a, b \in 1..n : f[a] = f[b] => a = b}

\* the per-toy values v taken in the order f, and their means summed in that
\* order
Reorder(v, f) == [b \in DOMAIN v |-> [t \in DOMAIN f |-> v[b][f[t]]]]
MeansOf(v, n) == [b \in DOMAIN v |-> RDiv(RSum(v[b], n), R(n))]

\* the Spectrum with its replicas taken in the order f, matrices built
Reordered(f) ==
    _build_matrices(
        [spectrum EXCEPT
            !.v_toys_abs = Reorder(spectrum.v_toys_abs, f),
            !.v_toys_rel = Reorder(spectrum.v_toys_rel, f),
            !.m_sx_abs = MeansOf(Reorder(spectrum.v_toys_abs, f), spectrum.nToys),
            !.m_sx_rel = MeansOf(Reorder(spectrum.v_toys_rel, f), spectrum.nToys)])

\* C28: the values stored for a replica are those an Unfolder without any
\* history computes from that replica's smeared measured histogram and the
\* response; and once the matrices are built, taking the replicas in any other
\* order permutes the per-toy values and leaves the per-bin means and every
\* covariance, correlation and variance cell as they are (exact arithmetic).
C28_ReplicaOrderInvariance ==
    (Computed /\ spectrum.nToys > 0) =>
        /\ \A t \in 1..spectrum.nToys :
              ReplicaDone(t) =>
                  \A r \in {ReplicaValues(ReplicaInput(t).c)} :
                      \A b \in Bins(spectrum.m_nbins) :
                          /\ spectrum.v_toys_abs[b][t] = r.abs[b]
                          /\ spectrum.v_toys_rel[b][t] = r.rel[b]
        /\ spectrum.raised = "" =>
              \A f \in Orders(spectrum.nToys) :
                  \A re \in {Reordered(f)} :
                      /\ re.raised = ""
                      /\ re.m_sx_abs = spectrum.m_sx_abs
                      /\ re.m_sx_rel = spectrum.m_sx_rel
                      /\ \A k \in MatrixKeys : re[k] = spectrum[k]

\* C28 witness: matrices built from two replicas with different smeared
\* histograms and different values, with a subtracted background; taken in
\* the other order the per-toy values are other lists.
C28_Witness ==
    /\ MatricesBuilt /\ spectrum.nToys = 2 /\ spectrum.m_nbins >= 2
    /\ \A b \in Bins(spectrum.m_nbins) : ~RIsZero(spectrum.h_background[b])
    /\ ~spectrum.ignore_background
    /\ ReplicaInput(1).c # ReplicaInput(2).c
    /\ Reorder(spectrum.v_toys_abs, <<2, 1>>) # spectrum.v_toys_abs
    /\ ~RIsZero(spectrum.h_absXs_covariance[<<2, 1>>])
    /\ spectrum.m_sx_abs[1] # spectrum.v_toys_abs[1][1]

\* the latest compute has called _build_matrices: its toy loop ran to the end
\* and the toy errors of lines 789-792 were set
BuildMatricesCalled == Computed /\ spectrum.h_absXs_error2 # Unset

\* the bins whose absolute or relative value is the same in every replica
ConstantBins ==
    {b \in Bins(spectrum.m_nbins) :
        \/ \A t \in 1..spectrum.nToys :
              spectrum.v_toys_abs[b][t] = spectrum.v_toys_abs[b][1]
        \/ \A t \in 1..spectrum.nToys :
              spectrum.v_toys_rel[b][t] = spectrum.v_toys_rel[b][1]}

\* the pair (i, j), j <= i, comes after the pair (b, 1) in the loops of
\* _build_matrices
AfterFirstPairOf(b, i, j) == i > b \/ (i = b /\ j > 1)

----------------------------------------------------------------------------
(* Claims about the Spectrum on further inputs, checked under SpecX *)

\* the response summed over all its reco bins, for truth bin t
AllRecoSum(t) ==
    RSum([r \in Bins(RecoBins(spectrum.h_response)) |-> spectrum.h_response[<<r, t>>]],
         RecoBins(spectrum.h_response))

\* C14 (as claimed): after compute, for every truth bin t SignalTruth[t] is the
\* sum of response[r][t] over all (non-overflow) reco bins r and the efficiency
\* is that sum over generated[t], also when the response has more reco bins
\* than truth bins.
C14_EfficiencyOverAllReco ==
    Computed =>
        \A t \in Bins(TruthBins(spectrum.h_response)) :
            /\ spectrum.h_signal_truth[t] = AllRecoSum(t)
            /\ ~RIsZero(spectrum.h_generated[t]) =>
                   spectrum.h_efficiency[t] = RDiv(AllRecoSum(t), spectrum.h_generated[t])

\* a value that is nan or infinite
NonFinite(a) == a[2] = 0

\* C15 (as claimed): if the generated histogram has a truth bin with value 0,
\* compute raises no exception, the efficiency and the AbsoluteDiffXs of that
\* bin are non-finite, and the other bins are computed normally (finite).
C15_EmptyGeneratedNonFinite ==
    (Computed /\ \E t \in Bins(spectrum.m_nbins) : RIsZero(spectrum.h_generated[t])) =>
        /\ spectrum.raised = ""
        /\ \A t \in Bins(spectrum.m_nbins) :
              IF RIsZero(spectrum.h_generated[t])
              THEN NonFinite(spectrum.h_efficiency[t]) /\ NonFinite(spectrum.h_absXs[t])
              ELSE ~NonFinite(spectrum.h_efficiency[t]) /\ ~NonFinite(spectrum.h_absXs[t])

\* a statErr setting that is none of "analytical", "toys", "toys:TYPE", "none"
Malformed(staterr) ==
    ~ \/ staterr \in {<<"analytical">>, <<"toys">>, <<"none">>}
      \/ Len(staterr) = 2 /\ staterr[1] = "toys"

\* C18 (as claimed): a statErr setting that is none of "analytical", "toys",
\* "toys:TYPE", "none" is a fatal error of the initialization: no unfolding
\* (the solver is never run, DataUnfolded never made) and no toy replica is
\* ever computed for it.
C18_MalformedStatErrFatal ==
    Malformed(spectrum.staterr) =>
        /\ spectrum.unfolder.m_unfolder = "None"
        /\ spectrum.h_data_unfolded = Unset
        /\ spectrum.v_toys_abs = <<>>

\* the replicas a compute call from the Spectrum sp and generator state r
\* stores when the toy type is "Gauss"
GaussReplicas(sp, r) ==
    compute_differential_cross_sections([sp EXCEPT !.m_toy_type = "Gauss"], r).sp.v_toys_abs

\* C19 (as claimed): for the systematic "MCstat" the replicas are smeared in
\* Gaussian mode for every toys setting, "toys:Poisson" included: the toy type
\* is not "Poisson" and the replicas of a compute call are those of Gaussian
\* smearing; for another systematic with setting "toys" the toy type is
\* "Poisson".
C19_MCstatForcesGauss ==
    /\ (spectrum.syst_name = "MCstat" /\ spectrum.staterr[1] = "toys") =>
          /\ spectrum.m_toy_type # "Poisson"
          /\ (Computed /\ spectrum.raised = "" /\ spectrum.nToys > 0) =>
                 spectrum.v_toys_abs = GaussReplicas(pre, run1.seed)
    /\ (spectrum.syst_name # "MCstat" /\ spectrum.staterr = <<"toys">>) =>
          spectrum.m_toy_type = "Poisson"

----------------------------------------------------------------------------
(* Claims about the Unfolder, checked under SpecU *)

\* C16 (as claimed): constructing an Unfolder with a method name that is not
\* one of the supported methods fails at construction, before any set_* or
\* do_unfold call is made: the constructor has raised, and no histogram is
\* ever stored in such an Unfolder.
C16_UnknownMethodFailsAtConstruction ==
    unf.method \notin Methods =>
        /\ op = "Unfolder" => unf.raised # ""
        /\ unf.h_data = Unset /\ unf.h_response = Unset

\* the measured histogram and the reco axis of the response of Unfolder u
\* differ in their number of bins
BinningMismatch(u) == Len(u.h_data) # RecoBins(u.h_response)

\* C17 (as claimed): when the reco axis of the response and the measured
\* histogram disagree in binning, do_unfold reports it as a fatal error before
\* the solver is run: the call raises and leaves no solver and no result.
C17_BinningMismatchDetected ==
    (op = "do_unfold" /\ pre.method \in Methods /\ BinningMismatch(pre)) =>
        /\ unf.raised # ""
        /\ unf.m_unfolder = pre.m_unfolder
        /\ unf.h_unfolded = pre.h_unfolded

\* the method identifiers Spectrum._configure treats as known: the four RooUnfold
\* ones and the two QUBO-based ones that get a float regularization
RecognisedMethods == {"Inversion", "SVD", "Bayes", "BinByBin", "SimNeal", "HybSam"}

\* C24 (as claimed): for every recognised method identifier and both error
\* modes, do_unfold selects a solver for the method and finishes with
\* h_unfolded set to the solver's result.
C24_EveryRecognisedMethodUnfolds ==
    (op = "do_unfold" /\ pre.method \in RecognisedMethods) =>
        /\ unf.raised = ""
        /\ unf.m_unfolder = "solver"
        /\ unf.h_unfolded = Hunfold(pre.h_data, pre.h_response)

\* C23: set_data_histogram, set_response_histogram (to_transpose false or
\* true) and do_unfold never modify the histogram objects the caller passed
\* in: the Unfolder works on its own copies, named unf_Data and unf_Response,
\* and each do_unfold stores a newly created result named unf_Unfolded, so
\* the results of earlier do_unfold calls are as they were.
C23_CallerObjectsUntouched ==
    /\ h2.data = h2_orig.data /\ h2.response = h2_orig.response
    /\ unf.h_data # Unset =>
           (h2.u_data.name = "unf_Data" /\ h2.u_data.c = h2.data.c
            /\ unf.h_data = h2.data.c)
    /\ unf.h_response # Unset => h2.u_response.name = "unf_Response"
    /\ Len(h2.results) >= Len(h2_prev.results)
    /\ \A k \in 1..Len(h2_prev.results) : h2.results[k] = h2_prev.results[k]
    /\ \A k \in 1..Len(h2.results) : h2.results[k].name = "unf_Unfolded"
    /\ (op = "do_unfold" /\ unf.raised = "") =>
           /\ Len(h2.results) = Len(h2_prev.results) + 1
           /\ h2.results[Len(h2.results)].c = unf.h_unfolded

\* C23 witness: a second do_unfold has stored its result, after a response
\* that is not symmetric was set with to_transpose true
C23_Witness ==
    /\ op = "do_unfold" /\ Len(h2.results) = 2
    /\ h2.u_response.c # h2.response.c
    /\ h2.u_data.name = "unf_Data" /\ h2.data.name = "test_data"
    /\ \E i \in DOMAIN h2.data.c : ~RIsZero(h2.data.c[i])

----------------------------------------------------------------------------
(* Claims about transpose_matrix, checked under SpecT *)

InRange(h) == (1..h.nx) \X (1..h.ny)

\* C8 (as claimed): two calls of transpose_matrix restore h, square or not:
\* every cell of the histogram has its original content and error and both
\* axis titles are the original ones.
C8_RoundTripRestores ==
    ncalls = 2 =>
        /\ \A p \in Cells(h2.nx, h2.ny) :
              /\ GetBinContent2(h2, p[1], p[2]) = GetBinContent2(h2_orig, p[1], p[2])
              /\ GetBinError2(h2, p[1], p[2]) = GetBinError2(h2_orig, p[1], p[2])
        /\ h2.xt = h2_orig.xt
        /\ h2.yt = h2_orig.yt

\* C9: for a square histogram with errors set, after one call the content and
\* the error of cell (j,i) are those cell (i,j) had before the call.
C9_SquareCellsSwapped ==
    (ncalls >= 1 /\ h2.nx = h2.ny) =>
        \A p \in InRange(h2) :
            /\ GetBinContent2(h2, p[2], p[1]) = GetBinContent2(h2_prev, p[1], p[2])
            /\ GetBinError2(h2, p[2], p[1]) = GetBinError2(h2_prev, p[1], p[2])

\* C9 witness: a 2x2 histogram with asymmetric contents and errors was transposed.
C9_Witness ==
    /\ ncalls = 1 /\ h2.nx = 2 /\ h2.ny = 2
    /\ GetBinContent2(h2_prev, 1, 2) # GetBinContent2(h2_prev, 2, 1)
    /\ GetBinError2(h2_prev, 1, 2) # GetBinError2(h2_prev, 2, 1)

\* C10 (as claimed): after transpose_matrix the X-axis title is the former
\* Y-axis title and the Y-axis title is the former X-axis title.
C10_TitlesSwapped ==
    ncalls >= 1 => (h2.xt = h2_prev.yt /\ h2.yt = h2_prev.xt)

----------------------------------------------------------------------------
(* Claims about divide_by_bin_width, checked under SpecD *)

\* the content and the error of cell p of histogram h
ContentOf(h, p) == h.c[p]

ErrorOf(h, p) == RSqrt(h.sumw2[p])

\* C11: for a 1D histogram with positive bin widths, after divide_by_bin_width
\* each bin's content is its content before the call divided by the bin's
\* width, each bin's error is its error before the call divided by the bin's
\* width, and underflow and overflow are as before the call.
C11_Divided1D ==
    (ncalls > 0 /\ h2.dim = 1) =>
        /\ \A i \in 1..h2.nx :
              /\ ContentOf(h2, <<i, 0>>) =
                     RDiv(ContentOf(h2_prev, <<i, 0>>), R(h2.wx[i]))
              /\ ErrorOf(h2, <<i, 0>>) =
                     RDiv(ErrorOf(h2_prev, <<i, 0>>), R(h2.wx[i]))
        /\ \A i \in {0, h2.nx + 1} :
              /\ h2.c[<<i, 0>>] = h2_prev.c[<<i, 0>>]
              /\ h2.sumw2[<<i, 0>>] = h2_prev.sumw2[<<i, 0>>]

\* C11 witness: a 1D histogram with a bin of width other than 1 that held a
\* non-zero content and error was divided, and its overflow is not empty.
C11_Witness ==
    /\ ncalls > 0 /\ h2.dim = 1
    /\ \E i \in 1..h2.nx :
          /\ h2.wx[i] > 1
          /\ ~RIsZero(ContentOf(h2_prev, <<i, 0>>))
          /\ ~RIsZero(ErrorOf(h2_prev, <<i, 0>>))
          /\ ContentOf(h2, <<i, 0>>) # ContentOf(h2_prev, <<i, 0>>)
    /\ ~RIsZero(h2.c[<<h2.nx + 1, 0>>])

\* C12 (as claimed): for a 2D histogram with positive bin widths, after
\* divide_by_bin_width the content and the error of every cell (i,j) are those
\* before the call divided by widthX(i) * widthY(j), also for widths not 1.
C12_Divided2D ==
    (ncalls > 0 /\ h2.dim = 2) =>
        \A i \in 1..h2.nx, j \in 1..h2.ny :
            /\ ContentOf(h2, <<i, j>>) =
                   RDiv(ContentOf(h2_prev, <<i, j>>), R(h2.wx[i] * h2.wy[j]))
            /\ ErrorOf(h2, <<i, j>>) =
                   RDiv(ErrorOf(h2_prev, <<i, j>>), R(h2.wx[i] * h2.wy[j]))

----------------------------------------------------------------------------
(* Claims about run_toy, checked under SpecR *)

\* C20: in Gaussian mode (a toy type other than "Poisson"), run_toy on a
\* histogram whose bin errors are all zero leaves every bin content as it was,
\* in every call; and in either mode run_toy never changes the number of bins.
C20_ZeroErrorsUnchanged ==
    ncalls > 0 =>
        /\ (h2.toy_type # "Poisson" /\ \A i \in DOMAIN h2.e : RIsZero(h2.e[i])) =>
               (h2.c = h2_prev.c /\ h2.c = h2_orig.c)
        /\ DOMAIN h2.c = DOMAIN h2_orig.c
        /\ Len(h2.c) = Len(h2_orig.c)

\* C20 witness: run_toy in Gaussian mode has run on a histogram with non-zero
\* contents and all-zero errors, with a non-zero deviate drawn for bin 1, and
\* the contents are as before.
C20_Witness ==
    /\ ncalls > 0 /\ h2.toy_type = "Gauss"
    /\ \A i \in DOMAIN h2.e : RIsZero(h2.e[i])
    /\ \E i \in DOMAIN h2.c : ~RIsZero(h2.c[i])
    /\ Deviate(pre) # 0 /\ rng # pre
    /\ h2.c = h2_prev.c

----------------------------------------------------------------------------
(* Claims about try_parse_str, try_parse_int, try_parse_float, under SpecP *)

\* the attribute the latest call asked for exists
AttributePresent ==
    parse.key \in DOMAIN parse.root /\ parse.elem \in DOMAIN parse.root[parse.key]

AttributeText == parse.root[parse.key][parse.elem]

\* the decimal numeral of a natural number
RECURSIVE Numeral(_)
Numeral(n) ==
    IF n < 10 THEN <<<<"0", "1", "2", "3", "4", "5", "6", "7", "8", "9">>[n + 1]>>
    ELSE Numeral(n \div 10) \o Numeral(n % 10)

\* text t, blanks at its ends aside, is the numeral of integer n
IsNumeralOf(t, n) ==
    Strip(t) = (IF n < 0 THEN <<"-">> \o Numeral(-n) ELSE Numeral(n))

\* C22: try_parse_str, try_parse_int and try_parse_float never raise: when the
\* element key exists under root, has the attribute elem, and the attribute
\* converts to the type asked for, they return the converted attribute, and
\* in every other case the default var. (A call that raised would have left
\* no result; an integer returned by conversion is the one the text is the
\* numeral of.)
C22_ParsedOrDefault ==
    ncalls > 0 =>
        /\ parse.fn = "try_parse_str" =>
              parse.result = (IF AttributePresent THEN AttributeText ELSE parse.var)
        /\ parse.fn = "try_parse_int" =>
              /\ parse.result =
                     (IF AttributePresent /\ int_(AttributeText).ok
                      THEN int_(AttributeText).value ELSE parse.var)
              /\ IF AttributePresent /\
                    \E n \in -500..500 : IsNumeralOf(AttributeText, n)
                 THEN IsNumeralOf(AttributeText, parse.result)
                 ELSE parse.result = parse.var
        /\ parse.fn = "try_parse_float" =>
              parse.result =
                  (IF AttributePresent /\ float_(AttributeText).ok
                   THEN float_(AttributeText).value ELSE parse.var)

\* C22 witness: try_parse_int has converted an attribute with a blank, or a
\* sign, in it
C22_Witness ==
    /\ ncalls > 0 /\ parse.fn = "try_parse_int" /\ AttributePresent
    /\ Len(AttributeText) = 2 /\ AttributeText[2] \in {"2", "4"}
    /\ AttributeText[1] \in {" ", "-"}
    /\ parse.result # parse.var

----------------------------------------------------------------------------
(* Claims about the driver, checked under SpecM *)

\* C29 (as claimed): every run of main() constructs the Spectrum, then
\* computes, then saves, in this order, and reaches the end of save with the
\* results written to the file the --output argument names.
C29_MainRunsToSave ==
    driver.step = "exited" =>
        /\ driver.raised = ""
        /\ driver.done = <<"Spectrum", "compute_differential_cross_sections", "save">>
        /\ driver.written = driver.args.output

====
